---- MODULE Spec2Model ----
(***************************************************************************)
(* A model of gemmi's PDB reader (src/include/gemmi/pdb.hpp).              *)
(*                                                                         *)
(* Bytes are ASCII codes (naturals), a field or a line is a sequence of    *)
(* bytes, and C's 0-based p[i] is At(p, i).  The record dispatcher of      *)
(* read_pdb_from_line_input is a state machine: one action per record      *)
(* type, reading a record the line source delivers.  Pure field scanners   *)
(* are operators, exercised by their own specifications.                   *)
(***************************************************************************)
EXTENDS Integers, Sequences, FiniteSets, TLC

VARIABLES
  file,           \* the records copy_line_from_stream has delivered so far
  line_num,       \* pdb.hpp:247
  pc,             \* "read" (in the loop), "failed" (fail() threw), "done" (returned)
  err,            \* the message of the exception, as its concatenated parts
  models,         \* st.models
  entities,       \* st.entities
  chain_to_ent_,  \* EntitySetter::chain_to_ent_
  has_ter,        \* pdb.hpp:253
  conn_records,   \* pdb.hpp:254
  matrix,         \* pdb.hpp:260, the accumulator of MTRIXn, SCALEn and ORIGX
  st,             \* the other members of the Structure: info, ncs, cell, origx
  model,          \* Model* as an index into models, 0 = nullptr
  chain,          \* Chain* as an index into the current model's chains, 0 = nullptr
  resi,           \* Residue* as an index into the current chain's residues, 0 = nullptr
  blocks,         \* history: per model name, the MODEL blocks its atoms came from
  arg,            \* the argument of the field scanner under test
  ret             \* its result, <<>> before the call

vars == <<file, line_num, pc, err, models, entities, chain_to_ent_, has_ter,
          conn_records, matrix, st, model, chain, resi, blocks, arg, ret>>

readerVars == <<file, line_num, pc, err, models, entities, chain_to_ent_,
                has_ter, conn_records, matrix, st, model, chain, resi,
                blocks>>

----------------------------------------------------------------------------
(* Bytes *)

\* The characters the scanners tell apart, by ASCII block.
Digits == <<"0", "1", "2", "3", "4", "5", "6", "7", "8", "9">>

Upper ==
  << "A", "B", "C", "D", "E", "F", "G", "H", "I", "J", "K", "L", "M",
     "N", "O", "P", "Q", "R", "S", "T", "U", "V", "W", "X", "Y", "Z" >>

Lower ==
  << "a", "b", "c", "d", "e", "f", "g", "h", "i", "j", "k", "l", "m",
     "n", "o", "p", "q", "r", "s", "t", "u", "v", "w", "x", "y", "z" >>

IndexOf(t, c) == CHOOSE i \in 1..Len(t) : t[i] = c

\* The ASCII code of a character: Ord[" "] = 32, Ord["0"] = 48, Ord["A"] = 65.
Ord ==
  [c \in {" ", "+", "-", ".", "?", "[", "_"}
          \cup {Digits[i] : i \in 1..10}
          \cup {Upper[i] : i \in 1..26} \cup {Lower[i] : i \in 1..26} |->
     CASE c = " " -> 32
       [] c = "+" -> 43
       [] c = "-" -> 45
       [] c = "." -> 46
       [] c = "?" -> 63
       [] c = "[" -> 91
       [] c = "_" -> 95
       [] c \in {Digits[i] : i \in 1..10} -> 47 + IndexOf(Digits, c)
       [] c \in {Upper[i] : i \in 1..26} -> 64 + IndexOf(Upper, c)
       [] OTHER -> 96 + IndexOf(Lower, c)]

NUL == 0

\* The character of a byte, for messages ("?" for a byte outside the tables).
Chr(b) ==
  IF b >= 48 /\ b <= 57 THEN Digits[b - 47]
  ELSE IF b >= 65 /\ b <= 90 THEN Upper[b - 64]
  ELSE IF b >= 97 /\ b <= 122 THEN Lower[b - 96]
  ELSE IF b = 32 THEN " "
  ELSE IF b = 43 THEN "+"
  ELSE IF b = 45 THEN "-"
  ELSE "?"

\* p[i] of the C code; past the end of the bytes given it reads the NUL that
\* terminates the buffer.
At(p, i) == IF i < Len(p) THEN p[i + 1] ELSE NUL

\* std::isspace in the C locale: space and \t \n \v \f \r.
isspace(c) == c = Ord[" "] \/ (c >= 9 /\ c <= 13)

isdigit(c) == c >= Ord["0"] /\ c <= Ord["9"]

----------------------------------------------------------------------------
(* Field scanners *)

RECURSIVE SkipSpace(_, _, _)
SkipSpace(p, i, field_length) ==
  IF i < field_length /\ isspace(At(p, i))
  THEN SkipSpace(p, i + 1, field_length)
  ELSE i

RECURSIVE ReadDigits(_, _, _, _)
ReadDigits(p, i, field_length, n) ==
  IF i < field_length /\ isdigit(At(p, i))
  THEN ReadDigits(p, i + 1, field_length, n * 10 + (At(p, i) - Ord["0"]))
  ELSE n

read_int(p, field_length) ==
  LET i0   == SkipSpace(p, 0, field_length)
      neg  == At(p, i0) = Ord["-"]
      i1   == IF neg \/ At(p, i0) = Ord["+"] THEN i0 + 1 ELSE i0
      n    == ReadDigits(p, i1, field_length, 0)
  IN  IF neg THEN -n ELSE n

\* Where the digit loop of read_int / read_double stops.
RECURSIVE DigitsEnd(_, _, _)
DigitsEnd(p, i, field_length) ==
  IF i < field_length /\ isdigit(At(p, i))
  THEN DigitsEnd(p, i + 1, field_length)
  ELSE i

RECURSIVE Pow10(_)
Pow10(k) == IF k = 0 THEN 1 ELSE 10 * Pow10(k - 1)

\* read_double.  The double sign * d is kept as the decimal it was read
\* from: neg, and d = num / 10^exp (the rounding of mult *= 0.1 is left out;
\* neg with num = 0 is the double -0.0).
read_double(p, field_length) ==
  LET i0   == SkipSpace(p, 0, field_length)
      neg  == At(p, i0) = Ord["-"]
      i1   == IF neg \/ At(p, i0) = Ord["+"] THEN i0 + 1 ELSE i0
      d    == ReadDigits(p, i1, field_length, 0)
      i2   == DigitsEnd(p, i1, field_length)
      dot  == i2 < field_length /\ At(p, i2) = Ord["."]
      i3   == IF dot THEN DigitsEnd(p, i2 + 1, field_length) ELSE i2
      exp  == IF dot THEN i3 - (i2 + 1) ELSE 0
      frac == IF dot THEN ReadDigits(p, i2 + 1, field_length, 0) ELSE 0
  IN  [neg |-> neg, num |-> d * Pow10(exp) + frac, exp |-> exp]

\* The bytes p[from .. from+n-1].
Bytes(p, from, n) == [k \in 1..n |-> At(p, from + k - 1)]

\* read_string, "EOL/EOF ends the string": the first index below
\* field_length holding \n, \r or NUL, or field_length.
RECURSIVE EolCut(_, _, _, _)
EolCut(p, o, i, field_length) ==
  IF i < field_length /\ ~(At(p, o + i) \in {10, 13, NUL})
  THEN EolCut(p, o, i + 1, field_length)
  ELSE i

\* read_string, right trim
RECURSIVE RTrim(_, _, _)
RTrim(p, o, field_length) ==
  IF field_length # 0 /\ isspace(At(p, o + field_length - 1))
  THEN RTrim(p, o, field_length - 1)
  ELSE field_length

read_string(p, field_length) ==
  LET o   == SkipSpace(p, 0, field_length)      \* left trim: ++p, --field_length
      fl1 == EolCut(p, o, 0, field_length - o)
      fl2 == RTrim(p, o, fl1)
  IN  Bytes(p, o, fl2)

\* The value of a byte as a base-36 digit, or 36 when it is none.
Digit36(c) ==
  IF isdigit(c) THEN c - Ord["0"]
  ELSE IF c >= Ord["A"] /\ c <= Ord["Z"] THEN c - Ord["A"] + 10
  ELSE IF c >= Ord["a"] /\ c <= Ord["z"] THEN c - Ord["a"] + 10
  ELSE 36

RECURSIVE Strtol36Digits(_, _, _)
Strtol36Digits(z, i, n) ==
  IF Digit36(At(z, i)) < 36
  THEN Strtol36Digits(z, i + 1, n * 36 + Digit36(At(z, i)))
  ELSE n

RECURSIVE SkipSpaceZ(_, _)
SkipSpaceZ(z, i) == IF isspace(At(z, i)) THEN SkipSpaceZ(z, i + 1) ELSE i

\* std::strtol(zstr, NULL, 36) on a NUL-terminated string.
strtol36(z) ==
  LET i0  == SkipSpaceZ(z, 0)
      neg == At(z, i0) = Ord["-"]
      i1  == IF neg \/ At(z, i0) = Ord["+"] THEN i0 + 1 ELSE i0
      n   == Strtol36Digits(z, i1, 0)
  IN  IF neg THEN -n ELSE n

\* read_base36<N>: the first N bytes, NUL-terminated, through strtol.
read_base36(N, p) == strtol36([i \in 1..N |-> At(p, i - 1)])

\* A reader of decimal sequence numbers only.
DecimalSnic(s) ==
  [ seq_num |-> read_int(s, 4),
    icode   |-> IF At(s, 4) = Ord[" "] THEN NUL ELSE At(s, 4) ]

read_snic(s) ==
  [ seq_num |-> IF At(s, 0) < Ord["A"]
                THEN read_int(s, 4)
                ELSE read_base36(4, s) - 466560 + 10000,
    icode   |-> IF At(s, 4) = Ord[" "] THEN NUL ELSE At(s, 4) ]

\* read_charge without its std::swap: only the layout digit-then-sign.
DigitFirstCharge(digit, sign) ==
  IF sign = Ord[" "] /\ digit = Ord[" "]
  THEN [ok |-> TRUE, val |-> 0, msg |-> <<>>]
  ELSE IF isdigit(digit)
       THEN IF sign # Ord["+"] /\ sign # Ord["-"] /\ sign # NUL /\ ~isspace(sign)
            THEN [ok |-> FALSE, val |-> 0,
                  msg |-> <<"Wrong format for charge: ", Chr(digit), Chr(sign)>>]
            ELSE [ok |-> TRUE,
                  val |-> (digit - Ord["0"]) * (IF sign = Ord["-"] THEN -1 ELSE 1),
                  msg |-> <<>>]
       ELSE [ok |-> TRUE, val |-> 0, msg |-> <<>>]

\* read_charge: a value, or the message fail() throws.
read_charge(digit, sign) ==
  IF sign = Ord[" "] /\ digit = Ord[" "]
  THEN [ok |-> TRUE, val |-> 0, msg |-> <<>>]
  ELSE LET d == IF isdigit(sign) THEN sign ELSE digit    \* std::swap
           s == IF isdigit(sign) THEN digit ELSE sign
       IN  IF isdigit(d)
           THEN IF s # Ord["+"] /\ s # Ord["-"] /\ s # NUL /\ ~isspace(s)
                THEN [ok |-> FALSE, val |-> 0,
                      msg |-> <<"Wrong format for charge: ", Chr(d), Chr(s)>>]
                ELSE [ok |-> TRUE,
                      val |-> (d - Ord["0"]) * (IF s = Ord["-"] THEN -1 ELSE 1),
                      msg |-> <<>>]
           ELSE [ok |-> TRUE, val |-> 0, msg |-> <<>>]

----------------------------------------------------------------------------
(* The Structure tree (model.hpp), as far as the reader uses it *)

in_vector(x, v) == \E i \in 1..Len(v) : v[i] = x

\* The index of the first element of v satisfying Test, 0 when there is none.
FirstIndex(v, Test(_)) ==
  IF \E i \in 1..Len(v) : Test(v[i])
  THEN CHOOSE i \in 1..Len(v) : Test(v[i]) /\ \A j \in 1..(i - 1) : ~Test(v[j])
  ELSE 0

NewModel(name) == [name |-> name, chains |-> <<>>, connections |-> <<>>]

NewChain(name) ==
  [name |-> name, auth_name |-> "", entity |-> 0, residues |-> <<>>]

NewResidue(rid) == [rid |-> rid, atoms |-> <<>>, conn |-> <<>>, is_cis |-> FALSE]

\* Structure::find_or_add_model: the models after the call and the index found.
find_or_add_model(ms, name) ==
  LET Named(m) == m.name = name
      i == FirstIndex(ms, Named)
  IN  IF i # 0 THEN [models |-> ms, at |-> i]
      ELSE [models |-> Append(ms, NewModel(name)), at |-> Len(ms) + 1]

\* Model::find_or_add_chain, on the chains of one model.
find_or_add_chain(cs, name) ==
  LET Named(c) == c.name = name
      i == FirstIndex(cs, Named)
  IN  IF i # 0 THEN [chains |-> cs, at |-> i]
      ELSE [chains |-> Append(cs, NewChain(name)), at |-> Len(cs) + 1]

\* Residue::matches
matches(res, rid) == res.rid = rid

\* A lookup that never finds: every call appends a residue.
add_residue(rs, rid) ==
  [residues |-> Append(rs, NewResidue(rid)), at |-> Len(rs) + 1]

\* Chain::find_or_add_residue, on the residues of one chain.
find_or_add_residue(rs, rid) ==
  LET Same(r) == matches(r, rid)
      i == FirstIndex(rs, Same)
  IN  IF i # 0 THEN [residues |-> rs, at |-> i]
      ELSE [residues |-> Append(rs, NewResidue(rid)), at |-> Len(rs) + 1]

----------------------------------------------------------------------------
(* EntitySetter *)

\* new Entity{"", type, PolymerType::NA, {}} at the address ptr
NewEntity(ptr, type) == [ptr |-> ptr, id |-> "", type |-> type, sequence |-> <<>>]

\* The entity a pointer refers to.
Deref(ents, ptr) == ents[CHOOSE i \in 1..Len(ents) : ents[i].ptr = ptr]

\* EntitySetter::set_for_chain; fresh is the address operator new returns
\* when an Entity is created.
set_for_chain(ents, map, chain_name, type, fresh) ==
  IF chain_name \in DOMAIN map
  THEN [entities |-> ents, map |-> map, ent |-> map[chain_name]]
  ELSE [entities |-> Append(ents, NewEntity(fresh, type)),
        map      |-> [n \in DOMAIN map \cup {chain_name} |->
                        IF n = chain_name THEN fresh ELSE map[n]],
        ent      |-> fresh]

\* A comparison that stops at the sizes.
SameSize(a, b) == Len(a) # 0 /\ Len(a) = Len(b)

same_entity(a, b) ==
  IF Len(a) = 0 \/ Len(a) # Len(b)
  THEN FALSE
  ELSE \A i \in 1..Len(a) : a[i] = b[i]

\* pdb.hpp:125-127: every chain name of entity from now names entity to
KeepPointers(map, from, to) == map

Redirect(map, from, to) ==
  [n \in DOMAIN map |-> IF map[n] = from THEN to ELSE map[n]]

\* v.erase(v.begin() + (j - 1))
Erase(v, j) == [k \in 1..(Len(v) - 1) |-> IF k < j THEN v[k] ELSE v[k + 1]]

\* The nested loops of finalize(): i and j are 1-based positions in entities.
RECURSIVE MergeLoop(_, _, _, _)
MergeLoop(ents, map, i, j) ==
  IF i > Len(ents) THEN [entities |-> ents, map |-> map]
  ELSE IF j > Len(ents) THEN MergeLoop(ents, map, i + 1, i + 2)
  ELSE IF same_entity(ents[j].sequence, ents[i].sequence)
       THEN MergeLoop(Erase(ents, j), Redirect(map, ents[j].ptr, ents[i].ptr),
                      i, j)
       ELSE MergeLoop(ents, map, i, j + 1)

\* The (model, chain) positions of a Structure, in iteration order.
RECURSIVE ChainsFrom(_, _, _)
ChainsFrom(ms, mi, ci) ==
  IF mi > Len(ms) THEN <<>>
  ELSE IF ci > Len(ms[mi].chains) THEN ChainsFrom(ms, mi + 1, 1)
  ELSE <<(<<mi, ci>>)>> \o ChainsFrom(ms, mi, ci + 1)

\* pdb.hpp:133: the chain name the entity is looked up under
AuthKey(ch) == ch.auth_name

entity_key(ch) == ch.name

\* "set all entity pointers in chains": k runs over the positions todo.
RECURSIVE SetPointers(_, _, _, _, _, _)
SetPointers(ms, ents, map, n_new, todo, k) ==
  IF k > Len(todo) THEN [models |-> ms, entities |-> ents, map |-> map]
  ELSE LET mi == todo[k][1]
           ci == todo[k][2]
           r  == set_for_chain(ents, map, entity_key(ms[mi].chains[ci]), "Unknown",
                               n_new + 1)
       IN  SetPointers([ms EXCEPT ![mi].chains[ci].entity = r.ent],
                       r.entities, r.map,
                       IF Len(r.entities) > Len(ents) THEN n_new + 1 ELSE n_new,
                       todo, k + 1)

\* "set unique IDs"
SetIds(ents) == [k \in 1..Len(ents) |-> [ents[k] EXCEPT !.id = ToString(k)]]

\* EntitySetter::finalize.  No Entity is destroyed before it, so the number
\* of entities on entry is the number created so far.
finalize(ms, ents, map) ==
  LET merged == MergeLoop(ents, map, 1, 2)
      set    == SetPointers(ms, merged.entities, merged.map, Len(ents),
                            ChainsFrom(ms, 1, 1), 1)
  IN  [models |-> set.models, entities |-> SetIds(set.entities), map |-> set.map]

\* A read that leaves the entity types as finalize left them.
KeepTypes(ms, ents, ter) == ents

\* pdb.hpp:422-426: chains that saw a TER are polymers.
TerPolymers(ms, ents, ter) ==
  LET Hit(ptr) == \E mi \in 1..Len(ms) : \E ci \in 1..Len(ms[mi].chains) :
                    /\ ms[mi].chains[ci].entity = ptr
                    /\ in_vector(ms[mi].name \o "/" \o ms[mi].chains[ci].name, ter)
  IN  [k \in 1..Len(ents) |->
         IF Hit(ents[k].ptr) THEN [ents[k] EXCEPT !.type = "Polymer"] ELSE ents[k]]

----------------------------------------------------------------------------
(* Doubles, Mat4x4 and the members of Structure outside the model tree *)

RECURSIVE StripZeros(_, _)
StripZeros(num, exp) ==
  IF exp > 0 /\ num % 10 = 0 THEN StripZeros(num \div 10, exp - 1)
  ELSE [num |-> num, exp |-> exp]

\* The double read_double returned, as num / 10^exp in lowest terms of ten;
\* -0.0 and 0.0 compare equal and are both [num |-> 0, exp |-> 0].
Double(d) ==
  IF d.num = 0 THEN [num |-> 0, exp |-> 0]
  ELSE LET c == StripZeros(d.num, d.exp)
       IN  [num |-> IF d.neg THEN -c.num ELSE c.num, exp |-> c.exp]

Zero == [num |-> 0, exp |-> 0]

One == [num |-> 1, exp |-> 0]

\* d > 1.0
GreaterThanOne(d) == d.num > Pow10(d.exp)

\* linalg::identity as a Mat4x4: the columns x, y, z, w.
identity ==
  [x |-> <<One, Zero, Zero, Zero>>, y |-> <<Zero, One, Zero, Zero>>,
   z |-> <<Zero, Zero, One, Zero>>, w |-> <<Zero, Zero, Zero, One>>]

\* A read_matrix that takes a line of any length.
ReadMatrixAnyLength(m, r) ==
  LET n == r.row - Ord["0"]
  IN  IF n >= 1 /\ n <= 3
      THEN [matrix |->
              [x |-> [m.x EXCEPT ![n] = Double(read_double(r.mx, 10))],
               y |-> [m.y EXCEPT ![n] = Double(read_double(r.my, 10))],
               z |-> [m.z EXCEPT ![n] = Double(read_double(r.mz, 10))],
               w |-> [m.w EXCEPT ![n] = Double(read_double(r.mw, 10))]],
            n |-> n]
      ELSE [matrix |-> m, n |-> n]

\* read_matrix: the accumulator after the call and the value returned.
read_matrix(m, r) ==
  IF r.len < 46 THEN [matrix |-> m, n |-> 0]
  ELSE LET n == r.row - Ord["0"]
       IN  IF n >= 1 /\ n <= 3
           THEN [matrix |->
                   [x |-> [m.x EXCEPT ![n] = Double(read_double(r.mx, 10))],
                    y |-> [m.y EXCEPT ![n] = Double(read_double(r.my, 10))],
                    z |-> [m.z EXCEPT ![n] = Double(read_double(r.mz, 10))],
                    w |-> [m.w EXCEPT ![n] = Double(read_double(r.mw, 10))]],
                 n |-> n]
           ELSE [matrix |-> m, n |-> n]

\* 90.0
Ninety == [num |-> 90, exp |-> 0]

\* UnitCell(): a = b = c = 1, right angles, no explicit matrices.
DefaultCell ==
  [a |-> One, b |-> One, c |-> One,
   alpha |-> Ninety, beta |-> Ninety, gamma |-> Ninety,
   orth |-> identity, frac |-> identity,
   volume |-> One, ar |-> One, br |-> One, cr |-> One,
   cos_alphar |-> Zero, cos_betar |-> Zero, cos_gammar |-> Zero,
   explicit_matrices |-> FALSE]

\* UnitCell::set_matrices_from_fract.  approx() is equality on the values
\* the model reads; orth is kept as the inverse it is computed from.
set_matrices_from_fract(cell, f) ==
  IF f = cell.frac THEN cell
  ELSE IF cell.frac.x[1] = One /\ (f.x[1] = Zero \/ GreaterThanOne(f.x[1]))
       THEN cell
       ELSE [cell EXCEPT !.frac = f, !.orth = [inverse_of |-> f],
                         !.explicit_matrices = TRUE]

\* Arithmetic of double on the values of the model, which are exact in
\* binary: 0, 1, 90 and the lengths 1 and 2 with their products and
\* reciprocals.
Norm(num, exp) == IF num = 0 THEN Zero ELSE StripZeros(num, exp)

Times(d, e) == Norm(d.num * e.num, d.exp + e.exp)

Plus(d, e) ==
  LET m == IF d.exp > e.exp THEN d.exp ELSE e.exp
  IN  Norm(d.num * Pow10(m - d.exp) + e.num * Pow10(m - e.exp), m)

Neg(d) == [d EXCEPT !.num = -d.num]

Minus(d, e) == Plus(d, Neg(e))

\* d / e for a divisor with a finite decimal reciprocal
Over(d, e) ==
  LET k == CHOOSE k \in 0..6 :
              /\ Pow10(k + e.exp) % e.num = 0
              /\ \A j \in 0..(k - 1) : Pow10(j + e.exp) % e.num # 0
  IN  Times(d, [num |-> Pow10(k + e.exp) \div e.num, exp |-> k])

\* std::sqrt on the radicands that occur, 0 and 1
Sqrt(d) == d

\* std::cos(deg2rad * angle) and std::sin(deg2rad * angle) at 0 degrees,
\* the only angle other than 90 the model passes
Cos0 == One

Sin0 == Zero

\* The Mat4x4 of a Transform with the diagonal mat p, q, r and vec 0.
Diag(p, q, r) ==
  [x |-> <<p, Zero, Zero, Zero>>, y |-> <<Zero, q, Zero, Zero>>,
   z |-> <<Zero, Zero, r, Zero>>, w |-> <<Zero, Zero, Zero, One>>]

\* The Mat4x4 of a Transform with the upper triangular mat given by rows.
Triangular(m11, m12, m13, m22, m23, m33) ==
  [x |-> <<m11, Zero, Zero, Zero>>, y |-> <<m12, m22, Zero, Zero>>,
   z |-> <<m13, m23, m33, Zero>>, w |-> <<Zero, Zero, Zero, One>>]

\* volume and the reciprocal parameters of calculate_properties, with the
\* trigonometric values it computed first
Properties(cell) ==
  LET cos_alpha == IF cell.alpha = Ninety THEN Zero ELSE Cos0
      cos_beta  == IF cell.beta = Ninety THEN Zero ELSE Cos0
      cos_gamma == IF cell.gamma = Ninety THEN Zero ELSE Cos0
      sin_alpha == IF cell.alpha = Ninety THEN One ELSE Sin0
      sin_beta  == IF cell.beta = Ninety THEN One ELSE Sin0
      sin_gamma == IF cell.gamma = Ninety THEN One ELSE Sin0
      impossible == sin_alpha = Zero \/ sin_beta = Zero \/ sin_gamma = Zero
      Sq(d)  == Times(d, d)
      Two    == [num |-> 2, exp |-> 0]
      volume == Times(Times(Times(cell.a, cell.b), cell.c),
                      Sqrt(Plus(Minus(Minus(Minus(One, Sq(cos_alpha)),
                                            Sq(cos_beta)), Sq(cos_gamma)),
                                Times(Times(Times(Two, cos_alpha), cos_beta),
                                      cos_gamma))))
      cos_alphar_sin_beta ==
        Over(Minus(Times(cos_beta, cos_gamma), cos_alpha), sin_gamma)
  IN  [impossible |-> impossible,
       cos_beta |-> cos_beta, cos_gamma |-> cos_gamma,
       sin_beta |-> sin_beta, sin_gamma |-> sin_gamma,
       cos_alphar_sin_beta |-> cos_alphar_sin_beta,
       cell |->
         IF impossible THEN cell
         ELSE [cell EXCEPT
                 !.volume = volume,
                 !.ar = Over(Times(Times(cell.b, cell.c), sin_alpha), volume),
                 !.br = Over(Times(Times(cell.a, cell.c), sin_beta), volume),
                 !.cr = Over(Times(Times(cell.a, cell.b), sin_gamma), volume),
                 !.cos_alphar = Over(cos_alphar_sin_beta, sin_beta),
                 !.cos_betar =
                    Over(Minus(Times(cos_alpha, cos_gamma), cos_beta),
                         Times(sin_alpha, sin_gamma)),
                 !.cos_gammar =
                    Over(Minus(Times(cos_alpha, cos_beta), cos_gamma),
                         Times(sin_alpha, sin_beta))]]

\* orth and frac of calculate_properties, from the cell p.cell with its
\* volume and reciprocal parameters set
Matrices(p) ==
  LET cell == p.cell
      sin_alphar == Sqrt(Minus(One, Times(cell.cos_alphar, cell.cos_alphar)))
      o22 == Times(cell.b, p.sin_gamma)
      o33 == Times(Times(cell.c, p.sin_beta), sin_alphar)
      o12 == Over(Neg(p.cos_gamma), Times(p.sin_gamma, cell.a))
      o13 == Over(Neg(Plus(Times(p.cos_gamma, p.cos_alphar_sin_beta),
                           Times(p.cos_beta, p.sin_gamma))),
                  Times(Times(Times(sin_alphar, p.sin_beta), p.sin_gamma),
                        cell.a))
      o23 == Over(cell.cos_alphar,
                  Times(Times(sin_alphar, p.sin_gamma), cell.b))
  IN  [cell EXCEPT
         !.orth = Triangular(cell.a, Times(cell.b, p.cos_gamma),
                        Times(cell.c, p.cos_beta),
                        o22, Neg(Times(cell.c, p.cos_alphar_sin_beta)), o33),
         !.frac = Triangular(Over(One, cell.a), o12, o13,
                        Over(One, o22), o23, Over(One, o33))]

\* A calculate_properties that computes orth and frac whatever
\* explicit_matrices is.
RecalculateAll(cell) ==
  LET p == Properties(cell)
  IN  IF p.impossible THEN [cell |-> cell, threw |-> TRUE]
      ELSE [cell |-> Matrices(p), threw |-> FALSE]

\* UnitCell::calculate_properties: the cell after the call, and whether it
\* left through gemmi::fail("Impossible angle - N*180deg.").
calculate_properties(cell) ==
  LET p == Properties(cell)
  IN  IF p.impossible THEN [cell |-> cell, threw |-> TRUE]
      ELSE IF cell.explicit_matrices THEN [cell |-> p.cell, threw |-> FALSE]
      ELSE [cell |-> Matrices(p), threw |-> FALSE]

\* UnitCell::set
set(cell, a_, b_, c_, alpha_, beta_, gamma_) ==
  IF gamma_ = Zero THEN [cell |-> cell, threw |-> FALSE]
  ELSE calculate_properties([cell EXCEPT !.a = a_, !.b = b_, !.c = c_,
                                         !.alpha = alpha_, !.beta = beta_,
                                         !.gamma = gamma_])

\* A string kept with its trailing white space.
NoTrim(s) == s

\* rtrimmed
RECURSIVE rtrimmed(_)
rtrimmed(s) ==
  IF Len(s) > 0 /\ isspace(s[Len(s)]) THEN rtrimmed(SubSeq(s, 1, Len(s) - 1))
  ELSE s

\* st.info[key], default-constructed when absent
InfoAt(info, key) == IF key \in DOMAIN info THEN info[key] ELSE <<>>

\* st.info[key] = value
InfoSet(info, key, value) ==
  [k \in DOMAIN info \cup {key} |-> IF k = key THEN value ELSE info[k]]

\* "JAN01FEB02MAR03APR04MAY05JUN06JUL07AUG08SEP09OCT10NOV11DEC122222"
months ==
  LET c == << "J","A","N","0","1", "F","E","B","0","2", "M","A","R","0","3",
              "A","P","R","0","4", "M","A","Y","0","5", "J","U","N","0","6",
              "J","U","L","0","7", "A","U","G","0","8", "S","E","P","0","9",
              "O","C","T","1","0", "N","O","V","1","1", "D","E","C","1","2",
              "2","2","2","2" >>
  IN  [i \in 1..Len(c) |-> Ord[c[i]]]

\* strstr(months, needle): the 0-based index of the first occurrence, or -1.
strstr(hay, needle) ==
  LET hits == {i \in 0..(Len(hay) - Len(needle)) :
                 \A k \in 1..Len(needle) : hay[i + k] = needle[k]}
  IN  IF hits = {} THEN -1 ELSE CHOOSE i \in hits : \A j \in hits : i <= j

\* The deposition date of HEADER: "28-MAR-07" gives "2007-03-28".
deposition_date(date) ==
  LET m == strstr(months, SubSeq(date, 4, 6))
  IN  (IF date[8] > Ord["6"] THEN <<Ord["1"], Ord["9"]>>
       ELSE <<Ord["2"], Ord["0"]>>)
        \o SubSeq(date, 8, 9) \o <<Ord["-"]>>
        \o (IF m >= 0 THEN <<months[m + 4], months[m + 5]>>
            ELSE <<Ord["?"], Ord["?"]>>)
        \o <<Ord["-"]>> \o SubSeq(date, 1, 2)

----------------------------------------------------------------------------
(* process_conn *)

\* Model::find_chain: the index of the chain of that name, 0 = nullptr.
find_chain(cs, name) ==
  LET Named(c) == c.name = name
  IN  FirstIndex(cs, Named)

\* Chain::find_residue: the index of the residue matching rid, 0 = nullptr.
find_residue(rs, rid) ==
  LET Same(r) == matches(r, rid)
  IN  FirstIndex(rs, Same)

\* ResidueId rid(read_snic(...), read_string(...)); the segment stays empty.
ConnRid(snic, res_name) ==
  [snic |-> read_snic(snic), segment |-> "", name |-> res_name]

\* c.res1->conn.push_back(tag), the residue given as <<chain, residue>>.
PushConn(cs, at, tag) ==
  [cs EXCEPT ![at[1]].residues[at[2]].conn = Append(@, tag)]

\* A loop body that keeps the Connection whether or not the residues exist.
LinkFoundChains(m, r, disulf_count) ==
  LET chain1 == find_chain(m.chains, r.chain1)
      chain2 == find_chain(m.chains, r.chain2)
  IN  IF chain1 # 0 /\ chain2 # 0
      THEN [model |->
              [m EXCEPT !.connections =
                 Append(@, [id |-> "disulf" \o ToString(disulf_count + 1),
                            type |-> "Disulf",
                            res1 |-> <<chain1, 0>>, res2 |-> <<chain2, 0>>])],
            disulf_count |-> disulf_count + 1]
      ELSE [model |-> m, disulf_count |-> disulf_count]

\* The body of the loop over st.models for one SSBOND record: the model
\* after it and disulf_count after it.
LinkDisulf(m, r, disulf_count) ==
  LET chain1 == find_chain(m.chains, r.chain1)
      chain2 == find_chain(m.chains, r.chain2)
  IN  IF chain1 # 0 /\ chain2 # 0
      THEN LET count == disulf_count + 1
               id    == "disulf" \o ToString(count)
               res1  == find_residue(m.chains[chain1].residues,
                                     ConnRid(r.snic1, r.res_name1))
               res2  == find_residue(m.chains[chain2].residues,
                                     ConnRid(r.snic2, r.res_name2))
               c     == [id |-> id, type |-> "Disulf",
                         res1 |-> <<chain1, res1>>, res2 |-> <<chain2, res2>>]
           IN  IF res1 # 0 /\ res2 # 0
               THEN [model |->
                       [m EXCEPT
                          !.chains = PushConn(PushConn(@, c.res1, "1 " \o id),
                                              c.res2, "2 " \o id),
                          !.connections = Append(@, c)],
                     disulf_count |-> count]
               ELSE [model |-> m, disulf_count |-> count]
      ELSE [model |-> m, disulf_count |-> disulf_count]

\* The body of the loop over st.models for one CISPEP record.
MarkCis(m, r) ==
  LET ch  == find_chain(m.chains, r.chain1)
      res == IF ch = 0 THEN 0
             ELSE find_residue(m.chains[ch].residues,
                               ConnRid(r.snic1, r.res_name1))
  IN  IF ch # 0 /\ res # 0
      THEN [m EXCEPT !.chains[ch].residues[res].is_cis = TRUE]
      ELSE m

\* for (Model& model : st.models), from model mi on
RECURSIVE ConnModels(_, _, _, _)
ConnModels(ms, r, mi, disulf_count) ==
  IF mi > Len(ms) THEN [models |-> ms, disulf_count |-> disulf_count]
  ELSE IF r.type = "SSBOND"
       THEN LET l == LinkDisulf(ms[mi], r, disulf_count)
            IN  ConnModels([ms EXCEPT ![mi] = l.model], r, mi + 1, l.disulf_count)
       ELSE ConnModels([ms EXCEPT ![mi] = MarkCis(ms[mi], r)], r, mi + 1,
                       disulf_count)

\* for (const std::string& record : conn_records), from record k on
RECURSIVE ConnRecords(_, _, _, _)
ConnRecords(ms, records, k, disulf_count) ==
  IF k > Len(records) THEN ms
  ELSE LET done == ConnModels(ms, records[k], 1, disulf_count)
       IN  ConnRecords(done.models, records, k + 1, done.disulf_count)

process_conn(ms, records) == ConnRecords(ms, records, 1, 0)

----------------------------------------------------------------------------
(* Records.  A record is a line as the dispatcher sees it: the record type
   its first bytes select (is_record_type), the length copy_line_from_stream
   returned, and the columns its handler reads. *)

Spaces(n) == [i \in 1..n |-> Ord[" "]]

BlankRecord ==
  [ type       |-> "",
    head       |-> <<>>,          \* line[0..3] where the bytes decide the branch
    raw        |-> <<>>,          \* the bytes fgets stored, where the buffer counts
    len        |-> 0,
    chain_name |-> "",            \* read_string(line+20, 2) / (line+10, 2)
    res_name   |-> "",            \* read_string(line+17, 3)
    snic       |-> Spaces(5),     \* line+22,  5 bytes
    c78        |-> Ord[" "],      \* line[78]
    c79        |-> Ord[" "],      \* line[79]
    u11        |-> Spaces(7),     \* line+28,  7 bytes
    serial     |-> Spaces(4),     \* line+10,  4 bytes
    mons       |-> <<>>,          \* read_string(line+i, 3), i = 19, 23, ...
    \* HEADER, TITLE, KEYWDS, EXPDTA
    text       |-> <<>>,          \* line+10, up to column 50 or to len-1
    date       |-> <<>>,          \* line+50, 9 bytes
    idcode     |-> <<>>,          \* line+62, 4 bytes
    \* MTRIXn, SCALEn, ORIGXn
    row        |-> NUL,           \* line[5]
    serial3    |-> <<>>,          \* line+7, 3 bytes
    mx         |-> <<>>,          \* line+10, 10 bytes
    my         |-> <<>>,          \* line+20, 10 bytes
    mz         |-> <<>>,          \* line+30, 10 bytes
    mw         |-> <<>>,          \* line+45, 10 bytes
    c59        |-> NUL,           \* line[59]
    \* SSBOND / CISPEP, as process_conn reads them
    res_name1  |-> "",            \* read_string(r+11, 3)
    chain1     |-> "",            \* read_string(r+14, 2)
    snic1      |-> Spaces(5),     \* r+17, 5 bytes
    res_name2  |-> "",            \* read_string(r+25, 3)
    chain2     |-> "",            \* read_string(r+28, 2)
    snic2      |-> Spaces(5) ]    \* r+31, 5 bytes

AtomRecord(type, len, chain_name, digit, c78, c79) ==
  [BlankRecord EXCEPT !.type = type, !.len = len, !.chain_name = chain_name,
                      !.res_name = "ALA",
                      !.snic = Spaces(3) \o <<Ord[digit], Ord[" "]>>,
                      !.c78 = c78, !.c79 = c79]

AnisouRecord(digit) ==
  [BlankRecord EXCEPT !.type = "ANISOU", !.len = 81,
                      !.u11 = Spaces(6) \o <<Ord[digit]>>]

ModelRecord(digit) ==
  [BlankRecord EXCEPT !.type = "MODEL", !.len = 15,
                      !.serial = Spaces(3) \o <<Ord[digit]>>]

SeqresRecord(chain_name, mons) ==
  [BlankRecord EXCEPT !.type = "SEQRES", !.len = 81,
                      !.chain_name = chain_name, !.mons = mons]

SsbondRecord(chain1, digit1, chain2, digit2) ==
  [BlankRecord EXCEPT !.type = "SSBOND", !.len = 81,
                      !.res_name1 = "ALA", !.chain1 = chain1,
                      !.snic1 = Spaces(3) \o <<Ord[digit1], Ord[" "]>>,
                      !.res_name2 = "ALA", !.chain2 = chain2,
                      !.snic2 = Spaces(3) \o <<Ord[digit2], Ord[" "]>>]

CispepRecord(chain1, digit1) ==
  [BlankRecord EXCEPT !.type = "CISPEP", !.len = 81,
                      !.res_name1 = "ALA", !.chain1 = chain1,
                      !.snic1 = Spaces(3) \o <<Ord[digit1], Ord[" "]>>]

\* A HEADER line of the given length: keywords, date and id code, as far
\* as the line reaches.
HeaderRecord(len, word, date, idcode) ==
  [BlankRecord EXCEPT !.type = "HEADER", !.len = len,
                      !.text = word \o Spaces((IF len > 50 THEN 40 ELSE len - 11)
                                                 - Len(word)),
                      !.date = date, !.idcode = idcode]

\* TITLE, KEYWDS or EXPDTA with the text from column 10 on.
TextRecord(type, text) ==
  [BlankRecord EXCEPT !.type = type, !.len = 10 + Len(text) + 1, !.text = text]

\* Row n of MTRIXn, SCALEn or ORIGXn: the value v in column n of the row,
\* zeros elsewhere.
MatrixRecord(type, len, n, v) ==
  LET Field(c) == Spaces(9) \o <<Ord[c]>>
  IN  [BlankRecord EXCEPT !.type = type, !.len = len, !.row = Ord[Digits[n + 1]],
                          !.serial3 = Spaces(2) \o <<Ord["1"]>>,
                          !.mx = Field(IF n = 1 THEN v ELSE "0"),
                          !.my = Field(IF n = 2 THEN v ELSE "0"),
                          !.mz = Field(IF n = 3 THEN v ELSE "0"),
                          !.mw = Field("0"),
                          !.c59 = Ord["1"]]

PlainRecord(type, len) == [BlankRecord EXCEPT !.type = type, !.len = len]

----------------------------------------------------------------------------
(* read_pdb_from_line_input *)

\* The lambda wrong: the message fail() throws, in its concatenated parts.
wrong(n, msg) == <<"Problem in line ", ToString(n), ": ", msg>>

\* The number of MODEL records among those read: the running MODEL block.
Block(f) == Cardinality({i \in 1..Len(f) : f[i].type = "MODEL"})

\* model->name + "/" + chain_name: the key of has_ter
ter_key(model_name, chain_name) == model_name \o "/" \o chain_name

\* "if this chain was TER'ed we use a separate chain for the rest"
NoSuffix(chain_name, ter) == chain_name

split_name(chain_name, ter) == chain_name \o (IF ter THEN "_H" ELSE "")

\* One iteration's start: copy_line_from_stream delivers r, ++line_num.
Pull(r) ==
  /\ pc = "read"
  /\ file' = Append(file, r)
  /\ line_num' = line_num + 1
  /\ UNCHANGED <<arg, ret>>

\* fail() throws: the Structure under construction is unwound with the stack.
Throw(e) ==
  /\ pc' = "failed"
  /\ err' = e
  /\ UNCHANGED <<models, entities, chain_to_ent_, has_ter, model, chain, resi,
                 blocks, conn_records, matrix, st>>

ReadAtom(r) ==
  /\ Pull(r)
  /\ IF r.len < 77
     THEN Throw(wrong(line_num', "The line is too short to be correct"))
     ELSE
     LET chain_name == r.chain_name
         switch == chain = 0 \/ chain_name # models[model].chains[chain].auth_name
     IN
     IF switch /\ model = 0
     THEN Throw(wrong(line_num', "ATOM/HETATM between models"))
     ELSE
     LET ter    == in_vector(ter_key(models[model].name, chain_name), has_ter)
         fc     == find_or_add_chain(models[model].chains,
                                     split_name(chain_name, ter))
         chains1 == IF switch
                    THEN [fc.chains EXCEPT ![fc.at].auth_name = chain_name]
                    ELSE models[model].chains
         chain1 == IF switch THEN fc.at ELSE chain
         resi1  == IF switch THEN 0 ELSE resi
         rid    == [snic |-> read_snic(r.snic), segment |-> "", name |-> r.res_name]
         fresh  == resi1 = 0 \/ ~matches(chains1[chain1].residues[resi1], rid)
         fr     == find_or_add_residue(chains1[chain1].residues, rid)
         residues1 == IF fresh THEN fr.residues ELSE chains1[chain1].residues
         resi2  == IF fresh THEN fr.at ELSE resi1
         charge == IF r.len > 78 THEN read_charge(r.c78, r.c79)
                   ELSE [ok |-> TRUE, val |-> 0, msg |-> <<>>]
         atom   == [group |-> IF r.type = "ATOM" THEN "A" ELSE "H",
                    charge |-> charge.val, u11 |-> 0]
     IN
     IF ~charge.ok
     THEN Throw(charge.msg)
     ELSE
       /\ models' = [models EXCEPT ![model].chains =
                       [chains1 EXCEPT ![chain1].residues =
                          [residues1 EXCEPT ![resi2].atoms = Append(@, atom)]]]
       /\ chain' = chain1
       /\ resi' = resi2
       /\ blocks' = blocks \cup {<<models[model].name, Block(file')>>}
       /\ UNCHANGED <<pc, err, entities, chain_to_ent_, has_ter, model,
                      conn_records, matrix, st>>

ReadAnisou(r) ==
  /\ Pull(r)
  /\ IF model = 0 \/ chain = 0 \/ resi = 0
        \/ Len(models[model].chains[chain].residues[resi].atoms) = 0
     THEN Throw(wrong(line_num', "ANISOU record not directly after ATOM/HETATM."))
     ELSE
     LET atoms == models[model].chains[chain].residues[resi].atoms
     IN
     IF atoms[Len(atoms)].u11 # 0
     THEN Throw(wrong(line_num',
                "Duplicated ANISOU record or not directly after ATOM/HETATM."))
     ELSE
       \* u11 in units of 1e-4 (the float product is 0 exactly when the int is)
       /\ models' = [models EXCEPT
            ![model].chains[chain].residues[resi].atoms[Len(atoms)].u11 =
               read_int(r.u11, 7)]
       /\ UNCHANGED <<pc, err, entities, chain_to_ent_, has_ter, model, chain,
                      resi, blocks, conn_records, matrix, st>>

\* REMARK, CONECT and records no branch matches
ReadIgnored(r) ==
  /\ Pull(r)
  /\ UNCHANGED <<pc, err, models, entities, chain_to_ent_, has_ter, model,
                 chain, resi, blocks, conn_records, matrix, st>>

ReadSeqres(r) ==
  /\ Pull(r)
  /\ LET e    == set_for_chain(entities, chain_to_ent_, r.chain_name, "Polymer",
                               Len(entities) + 1)
         at   == CHOOSE i \in 1..Len(e.entities) : e.entities[i].ptr = e.ent
         read == SelectSeq(r.mons, LAMBDA res_name : res_name # "")
     IN  /\ entities' = [e.entities EXCEPT ![at].sequence = @ \o read]
         /\ chain_to_ent_' = e.map
  /\ UNCHANGED <<pc, err, models, has_ter, model, chain, resi, blocks,
                 conn_records, matrix, st>>

\* pdb.hpp:384: a check that lets every model through
NeverDuplicate(m) == FALSE

has_chains(m) == Len(m.chains) # 0

ReadModel(r) ==
  /\ Pull(r)
  /\ IF model # 0 /\ chain # 0
     THEN Throw(wrong(line_num', "MODEL without ENDMDL?"))
     ELSE
     LET name == ToString(read_int(r.serial, 4))
         fm   == find_or_add_model(models, name)
     IN
     IF has_chains(fm.models[fm.at])
     THEN Throw(wrong(line_num', "duplicate MODEL number: " \o name))
     ELSE
       /\ models' = fm.models
       /\ model' = fm.at
       /\ chain' = 0
       /\ UNCHANGED <<pc, err, entities, chain_to_ent_, has_ter, resi, blocks,
                      conn_records, matrix, st>>

\* An ENDMDL that forgets the chain only and leaves the model open.
EndmdlKeepsModel(r) ==
  /\ Pull(r)
  /\ chain' = 0
  /\ UNCHANGED <<pc, err, models, entities, chain_to_ent_, has_ter, model,
                 resi, blocks, conn_records, matrix, st>>

ReadEndmdl(r) ==
  /\ Pull(r)
  /\ model' = 0
  /\ chain' = 0
  /\ UNCHANGED <<pc, err, models, entities, chain_to_ent_, has_ter, resi,
                 blocks, conn_records, matrix, st>>

\* A TER that records the chain and stays in it.
TerKeepsChain(r) ==
  /\ Pull(r)
  /\ has_ter' = IF chain # 0
                THEN Append(has_ter, ter_key(models[model].name,
                                             models[model].chains[chain].name))
                ELSE has_ter
  /\ UNCHANGED <<pc, err, models, entities, chain_to_ent_, model, chain, resi,
                 blocks, conn_records, matrix, st>>

ReadTer(r) ==
  /\ Pull(r)
  /\ has_ter' = IF chain # 0
                THEN Append(has_ter, ter_key(models[model].name,
                                             models[model].chains[chain].name))
                ELSE has_ter
  /\ chain' = 0
  /\ UNCHANGED <<pc, err, models, entities, chain_to_ent_, model, resi,
                 blocks, conn_records, matrix, st>>

\* The handlers below leave the model tree and the reader's pointers alone.
TreeUnchanged ==
  UNCHANGED <<pc, err, models, entities, chain_to_ent_, has_ter, conn_records,
              model, chain, resi, blocks>>

ReadHeader(r) ==
  /\ Pull(r)
  /\ LET info1 == IF r.len > 50
                  THEN InfoSet(st.info, "_struct_keywords.pdbx_keywords",
                               rtrimmed(Bytes(r.text, 0, 40)))
                  ELSE st.info
         info2 == IF r.len > 59
                  THEN InfoSet(info1,
                               "_pdbx_database_status.recvd_initial_deposition_date",
                               deposition_date(r.date))
                  ELSE info1
         info3 == IF r.len > 66
                  THEN InfoSet(info2, "_entry.id", Bytes(r.idcode, 0, 4))
                  ELSE info2
     IN  st' = [st EXCEPT !.info = info3]
  /\ UNCHANGED matrix
  /\ TreeUnchanged

\* TITLE, KEYWDS, EXPDTA: st.info[key] += the rest of the line, trimmed
ReadText(r, key) ==
  /\ Pull(r)
  /\ st' = IF r.len > 10
           THEN [st EXCEPT !.info =
                   InfoSet(@, key, InfoAt(@, key)
                                     \o rtrimmed(Bytes(r.text, 0, r.len - 10 - 1)))]
           ELSE st
  /\ UNCHANGED matrix
  /\ TreeUnchanged

ReadMtrix(r) ==
  /\ Pull(r)
  /\ LET rm == read_matrix(matrix, r)
     IN  IF rm.n = 3 /\ rm.matrix # identity
         THEN /\ st' = [st EXCEPT !.ncs =
                          Append(@, [id |-> read_string(r.serial3, 3),
                                     given |-> r.len > 59 /\ r.c59 = Ord["1"],
                                     transform |-> rm.matrix])]
              /\ matrix' = identity
         ELSE /\ matrix' = rm.matrix
              /\ UNCHANGED st
  /\ TreeUnchanged

ReadScale(r) ==
  /\ Pull(r)
  /\ LET rm == read_matrix(matrix, r)
     IN  IF rm.n = 3
         THEN /\ st' = [st EXCEPT !.cell = set_matrices_from_fract(@, rm.matrix)]
              /\ matrix' = identity
         ELSE /\ matrix' = rm.matrix
              /\ UNCHANGED st
  /\ TreeUnchanged

ReadOrigx(r) ==
  /\ Pull(r)
  /\ LET rm == read_matrix(matrix, r)
     IN  /\ st' = IF rm.n = 3 THEN [st EXCEPT !.origx = rm.matrix] ELSE st
         /\ matrix' = rm.matrix
  /\ TreeUnchanged

\* A handler that resolves the record against the tree as read so far.
LinkOnRead(r, min_length) ==
  /\ Pull(r)
  /\ models' = IF r.len > min_length THEN process_conn(models, <<r>>)
               ELSE models
  /\ UNCHANGED <<pc, err, entities, chain_to_ent_, has_ter, conn_records,
                 model, chain, resi, blocks, matrix, st>>

\* SSBOND and CISPEP: buffered for process_conn when long enough
ReadConn(r, min_length) ==
  /\ Pull(r)
  /\ conn_records' = IF r.len > min_length THEN Append(conn_records, r)
                     ELSE conn_records
  /\ UNCHANGED <<pc, err, models, entities, chain_to_ent_, has_ter, model,
                 chain, resi, blocks, matrix, st>>

ReadSsbond(r) == ReadConn(r, 34)

ReadCispep(r) == ReadConn(r, 21)

\* After the loop: finalize(), the TER typing, Structure::finish() (which
\* keeps names, entity pointers and residues), process_conn, return st.
Finish ==
  LET f == finalize(models, entities, chain_to_ent_)
  IN  /\ models' = process_conn(f.models, conn_records)
      /\ chain_to_ent_' = f.map
      /\ entities' = TerPolymers(f.models, f.entities, has_ter)
      /\ pc' = "done"
      /\ UNCHANGED <<err, has_ter, model, chain, resi, blocks, conn_records,
                     matrix, st>>

\* END: break
ReadEnd(r) == Pull(r) /\ Finish

\* copy_line_from_stream returns 0
ReadEof ==
  /\ pc = "read"
  /\ Finish
  /\ UNCHANGED <<file, line_num, arg, ret>>

----------------------------------------------------------------------------
(* The dispatch on the first four bytes of the line *)

LF == 10

CR == 13

\* b & ~0x20
ClearBit5(b) == IF (b \div 32) % 2 = 1 THEN b - 32 ELSE b

\* The branches of the loop body in the order the if-else chain tries them.
branches ==
  << "ATOM", "HETATM", "ANISOU", "REMARK", "CONECT", "SEQRES", "HEADER",
     "TITLE", "KEYWDS", "EXPDTA", "CRYST1", "MTRIXn", "MODEL", "ENDMDL",
     "TER", "SCALEn", "ORIGX", "SSBOND", "CISPEP", "END" >>

\* The first four bytes of the string literal a branch passes as `record`;
\* "TER" and "END" have their terminating NUL as the fourth.
record_bytes ==
  LET B(a, b, c, d) == <<Ord[a], Ord[b], Ord[c], Ord[d]>>
  IN  [record \in {branches[i] : i \in 1..Len(branches)} |->
        CASE record = "ATOM"   -> B("A", "T", "O", "M")
          [] record = "HETATM" -> B("H", "E", "T", "A")
          [] record = "ANISOU" -> B("A", "N", "I", "S")
          [] record = "REMARK" -> B("R", "E", "M", "A")
          [] record = "CONECT" -> B("C", "O", "N", "E")
          [] record = "SEQRES" -> B("S", "E", "Q", "R")
          [] record = "HEADER" -> B("H", "E", "A", "D")
          [] record = "TITLE"  -> B("T", "I", "T", "L")
          [] record = "KEYWDS" -> B("K", "E", "Y", "W")
          [] record = "EXPDTA" -> B("E", "X", "P", "D")
          [] record = "CRYST1" -> B("C", "R", "Y", "S")
          [] record = "MTRIXn" -> B("M", "T", "R", "I")
          [] record = "MODEL"  -> B("M", "O", "D", "E")
          [] record = "ENDMDL" -> B("E", "N", "D", "M")
          [] record = "TER"    -> <<Ord["T"], Ord["E"], Ord["R"], NUL>>
          [] record = "SCALEn" -> B("S", "C", "A", "L")
          [] record = "ORIGX"  -> B("O", "R", "I", "G")
          [] record = "SSBOND" -> B("S", "S", "B", "O")
          [] record = "CISPEP" -> B("C", "I", "S", "P")
          [] record = "END"    -> <<Ord["E"], Ord["N"], Ord["D"], NUL>>]

\* is_record_type: the four bytes packed into one int, bit 5 of each byte
\* cleared, against the four bytes of record; on bytes below 128 the packed
\* comparison is the comparison byte by byte.
is_record_type(s, record) ==
  \A i \in 1..4 : ClearBit5(s[i]) = record_bytes[record][i]

\* The branch taken for a line that starts with the bytes s; "" when none.
record_type(s) ==
  LET Matches(record) == is_record_type(s, record)
      at == FirstIndex(branches, Matches)
  IN  IF at = 0 THEN "" ELSE branches[at]

\* One iteration of the loop on a line given with its first four bytes, for
\* the lines that reach the ATOM/HETATM, REMARK, CONECT, ENDMDL, TER or END
\* branch or no branch at all.
ReadLine(l) ==
  \E t \in {record_type(l.head)} : \E r \in {[l EXCEPT !.type = t]} :
      CASE t \in {"ATOM", "HETATM"} -> ReadAtom(r)
        [] t \in {"REMARK", "CONECT", ""} -> ReadIgnored(r)
        [] t = "ENDMDL" -> ReadEndmdl(r)
        [] t = "TER"    -> ReadTer(r)
        [] t = "END"    -> ReadEnd(r)
        [] OTHER        -> FALSE

----------------------------------------------------------------------------
(* The reader's specification: every file of at most MaxLines records over
   the inputs below. *)

MaxLines == 5

AtomInputs ==
  { AtomRecord("ATOM",   80, "A", "1", Ord[" "], Ord[" "]),
    AtomRecord("ATOM",   80, "A", "2", Ord[" "], Ord[" "]),
    AtomRecord("ATOM",   80, "B", "1", Ord[" "], Ord[" "]),
    AtomRecord("HETATM", 80, "A", "1", Ord["2"], Ord["-"]),
    AtomRecord("ATOM",   78, "B", "1", Ord[" "], Ord[" "]),
    AtomRecord("ATOM",   76, "A", "1", Ord[" "], Ord[" "]),
    AtomRecord("ATOM",   80, "A", "1", Ord["2"], Ord["X"]) }

AnisouInputs == { AnisouRecord("0"), AnisouRecord("5") }

ModelInputs == { ModelRecord("1"), ModelRecord("2") }

SeqresInputs == { SeqresRecord("A", <<"ALA", "">>) }

ReaderInit ==
  /\ file = <<>>
  /\ line_num = 0
  /\ pc = "read"
  /\ err = <<>>
  /\ models = <<NewModel("1")>>          \* st.find_or_add_model("1")
  /\ entities = <<>>
  /\ chain_to_ent_ = <<>>
  /\ has_ter = <<>>
  /\ conn_records = <<>>
  /\ matrix = identity
  /\ st = [info |-> <<>>, ncs |-> <<>>, cell |-> DefaultCell, origx |-> identity]
  /\ model = 1
  /\ chain = 0
  /\ resi = 0
  /\ blocks = {}

Init == ReaderInit /\ arg = <<>> /\ ret = <<>>

More(max) == Len(file) < max

Next ==
  \/ More(MaxLines) /\ \E r \in AtomInputs : ReadAtom(r)
  \/ More(MaxLines) /\ \E r \in AnisouInputs : ReadAnisou(r)
  \/ More(MaxLines) /\ ReadIgnored(PlainRecord("REMARK", 81))
  \/ More(MaxLines) /\ \E r \in SeqresInputs : ReadSeqres(r)
  \/ More(MaxLines) /\ \E r \in ModelInputs : ReadModel(r)
  \/ More(MaxLines) /\ ReadEndmdl(PlainRecord("ENDMDL", 7))
  \/ More(MaxLines) /\ ReadTer(PlainRecord("TER", 81))
  \/ More(MaxLines) /\ ReadEnd(PlainRecord("END", 81))
  \/ ReadEof

Spec == Init /\ [][Next]_vars

----------------------------------------------------------------------------
(* What a file says, read off the records alone.  While pc = "read" every
   record of file was accepted; when pc = "failed" all but the last were. *)

AtomTypes == {"ATOM", "HETATM"}

\* The position of the last of the first n records whose type is in T, or 0.
LastOf(f, n, T) ==
  IF \E i \in 1..n : f[i].type \in T
  THEN CHOOSE i \in 1..n : f[i].type \in T /\ \A j \in (i + 1)..n : f[j].type \notin T
  ELSE 0

\* The name of the model that is open after n records, "" between models.
OpenModel(f, n) ==
  LET i == LastOf(f, n, {"MODEL", "ENDMDL"})
  IN  IF i = 0 THEN "1"
      ELSE IF f[i].type = "ENDMDL" THEN ""
      ELSE ToString(read_int(f[i].serial, 4))

\* Whether a chain is current after n records: an ATOM/HETATM was read and
\* no TER, MODEL or ENDMDL since.
InChain(f, n) ==
  LastOf(f, n, AtomTypes) > LastOf(f, n, {"TER", "MODEL", "ENDMDL"})

\* The chain-name field under which the current chain was read.
ChainField(f, n) == f[LastOf(f, n, AtomTypes)].chain_name

\* A TER among the first n records was processed while a chain read under
\* chain-name X was current in the model named M.
TerSeen(f, n, M, X) ==
  \E i \in 1..n :
    /\ f[i].type = "TER"
    /\ InChain(f, i - 1)
    /\ ChainField(f, i - 1) = X
    /\ OpenModel(f, i - 1) = M

\* The number of atoms in the chains called name of the models called M.
AtomsOfResidues(rs) ==
  LET RECURSIVE Sum(_)
      Sum(k) == IF k = 0 THEN 0 ELSE Len(rs[k].atoms) + Sum(k - 1)
  IN  Sum(Len(rs))

ChainsNamed(ms, M, name) ==
  { <<mi, ci>> \in {p \in (1..Len(ms)) \X (1..8) : p[2] <= Len(ms[p[1]].chains)} :
      ms[mi].name = M /\ ms[mi].chains[ci].name = name }

AtomsIn(ms, M, name) ==
  LET cs == ChainsNamed(ms, M, name)
      RECURSIVE Total(_)
      Total(S) == IF S = {} THEN 0
                  ELSE LET p == CHOOSE q \in S : TRUE
                       IN  AtomsOfResidues(ms[p[1]].chains[p[2]].residues)
                           + Total(S \ {p})
  IN  Total(cs)

\* The record just read.
line == file[Len(file)]

\* This step read an ATOM/HETATM record and accepted it.
AtomAccepted ==
  /\ Len(file') = Len(file) + 1
  /\ line'.type \in AtomTypes
  /\ pc' = "read"

----------------------------------------------------------------------------
(* C1: TER isolation.  Once a TER has been processed while a chain read under
   chain-name X was current in model M, every later ATOM/HETATM of M whose
   chain-name field is X is appended to the chain named X_H, whose auth_name
   is X, and the chain named X gets no atom. *)
C1_TerIsolation ==
  [][ LET X == line'.chain_name
          M == OpenModel(file, Len(file))
      IN  (AtomAccepted /\ TerSeen(file, Len(file), M, X)) =>
            /\ AtomsIn(models', M, X \o "_H") = AtomsIn(models, M, X \o "_H") + 1
            /\ AtomsIn(models', M, X) = AtomsIn(models, M, X)
            /\ models'[model'].name = M
            /\ models'[model'].chains[chain'].name = X \o "_H"
            /\ models'[model'].chains[chain'].auth_name = X
            /\ \A p \in ChainsNamed(models', M, X \o "_H") :
                  models'[p[1]].chains[p[2]].auth_name = X ]_vars

\* An atom of chain-name A has landed in A_H after A's TER, next to atoms in A.
C1_Witness ==
  /\ pc = "read"
  /\ Len(file) >= 3
  /\ line.type \in AtomTypes
  /\ TerSeen(file, Len(file) - 1, OpenModel(file, Len(file)), line.chain_name)
  /\ AtomsIn(models, OpenModel(file, Len(file)), line.chain_name) >= 1
  /\ AtomsIn(models, OpenModel(file, Len(file)), line.chain_name \o "_H") >= 1

----------------------------------------------------------------------------
(* The reader on files that declare sequences: SEQRES records for three
   chain names, atoms of two of them, TER and a second model. *)

MaxEntLines == 5

EntSeqresInputs ==
  { SeqresRecord(cn, mons) :
      cn \in {"A", "B", "C"}, mons \in {<<"ALA", "">>, <<"GLY">>} }
  \cup { SeqresRecord("A", <<"", "">>), SeqresRecord("B", <<>>) }

EntAtomInputs ==
  { AtomRecord("ATOM", 80, cn, "1", Ord[" "], Ord[" "]) : cn \in {"A", "B"} }

NextEntity ==
  \/ More(MaxEntLines) /\ \E r \in EntSeqresInputs : ReadSeqres(r)
  \/ More(MaxEntLines) /\ \E r \in EntAtomInputs : ReadAtom(r)
  \/ More(MaxEntLines) /\ ReadTer(PlainRecord("TER", 81))
  \/ More(MaxEntLines) /\ ReadModel(ModelRecord("2"))
  \/ ReadEof

SpecEntity == Init /\ [][NextEntity]_vars

\* Whether a SEQRES record of the file names the chain.
Registered(f, name) ==
  \E i \in 1..Len(f) : f[i].type = "SEQRES" /\ f[i].chain_name = name

\* The monomer list the SEQRES records of a chain name decode to.
RECURSIVE SeqresOf(_, _, _)
SeqresOf(f, n, name) ==
  IF n = 0 THEN <<>>
  ELSE SeqresOf(f, n - 1, name)
       \o (IF f[n].type = "SEQRES" /\ f[n].chain_name = name
           THEN SelectSeq(f[n].mons, LAMBDA m : m # "")
           ELSE <<>>)

Declared(name) == SeqresOf(file, Len(file), name)

\* The position of the first SEQRES record naming the chain.
FirstSeqres(f, name) ==
  CHOOSE i \in 1..Len(f) :
    /\ f[i].type = "SEQRES" /\ f[i].chain_name = name
    /\ \A j \in 1..(i - 1) : ~(f[j].type = "SEQRES" /\ f[j].chain_name = name)

SeqresNames == {file[i].chain_name : i \in {k \in 1..Len(file) : file[k].type = "SEQRES"}}

\* Two names share an entity by the rule: equal, or identical non-empty lists.
Equivalent(n1, n2) ==
  n1 = n2 \/ (Declared(n1) = Declared(n2) /\ Declared(n1) # <<>>)

\* The positions <<model, chain>> of all chains.
AllChains == {p \in (1..Len(models)) \X (1..8) : p[2] <= Len(models[p[1]].chains)}

ChainAt(p) == models[p[1]].chains[p[2]]

(* C2: entity merge.  After finalize, two chains (of any models) whose names
   got SEQRES records decoding to identical non-empty monomer lists point to
   the same Entity, the one created first for such a name, and it carries
   that list; names with different lists, or with two empty lists, keep
   different entities. *)
C2_EntityMerge ==
  pc = "done" =>
    /\ \A p \in AllChains, q \in AllChains :
          (Registered(file, ChainAt(p).name) /\ Registered(file, ChainAt(q).name)) =>
             (ChainAt(p).entity = ChainAt(q).entity
                <=> Equivalent(ChainAt(p).name, ChainAt(q).name))
    /\ \A n1 \in SeqresNames, n2 \in SeqresNames :
          (chain_to_ent_[n1] = chain_to_ent_[n2]) <=> Equivalent(n1, n2)
    /\ \A p \in AllChains :
          Registered(file, ChainAt(p).name) =>
            LET n     == ChainAt(p).name
                first == CHOOSE m \in SeqresNames :
                           /\ Equivalent(m, n)
                           /\ \A k \in SeqresNames :
                                 Equivalent(k, n) =>
                                   FirstSeqres(file, m) <= FirstSeqres(file, k)
                \* entities are created in the order names first appear
                rank  == Cardinality({k \in SeqresNames :
                           FirstSeqres(file, k) <= FirstSeqres(file, first)})
            IN  /\ ChainAt(p).entity = rank
                /\ \E i \in 1..Len(entities) :
                      /\ entities[i].ptr = rank
                      /\ entities[i].sequence = Declared(first)

\* Chains A and B, declared with the same sequence after a different C and
\* in the order A, C, B, share A's entity.
C2_Witness ==
  /\ pc = "done"
  /\ \E p \in AllChains, q \in AllChains :
        /\ ChainAt(p).name = "A" /\ ChainAt(q).name = "B"
        /\ Registered(file, "A") /\ Registered(file, "B") /\ Registered(file, "C")
        /\ FirstSeqres(file, "A") < FirstSeqres(file, "C")
        /\ FirstSeqres(file, "C") < FirstSeqres(file, "B")
        /\ Declared("A") = Declared("B") /\ Declared("A") # <<>>
        /\ Declared("C") # Declared("A")
        /\ ChainAt(p).entity = ChainAt(q).entity

\* The addresses of the entities the Structure owns.
Owned == {entities[i].ptr : i \in 1..Len(entities)}

\* Chains whose name no SEQRES record registered.
Unregistered == {p \in AllChains : ~Registered(file, ChainAt(p).name)}

\* Every chain points to an entity the Structure owns.
EntitiesSet == \A p \in AllChains : ChainAt(p).entity # 0 /\ ChainAt(p).entity \in Owned

\* The entity of an unregistered chain was created by finalize (the SEQRES
\* records created one entity per registered name before it), with no sequence.
CreatedForChain(p) ==
  /\ ChainAt(p).entity > Cardinality(SeqresNames)
  /\ Deref(entities, ChainAt(p).entity).sequence = <<>>
  /\ \A q \in AllChains :
        Registered(file, ChainAt(q).name) => ChainAt(q).entity # ChainAt(p).entity

(* C3 as stated: after a successful read every chain has a non-null entity
   that is an element of structure.entities, and a chain whose name had no
   SEQRES registration gets an Entity of its own, newly created: no other
   chain has it. *)
C3_OwnEntityPerChain ==
  pc = "done" =>
    /\ EntitiesSet
    /\ \A p \in Unregistered :
          /\ CreatedForChain(p)
          /\ \A q \in AllChains : q # p => ChainAt(q).entity # ChainAt(p).entity

(* C3, amended: after a successful read every chain has a non-null entity
   that is an element of structure.entities, and a chain whose name had no
   SEQRES registration gets an Entity created by finalize for its chain name:
   the chains of that name (one per model) share it, and no chain of another
   name has it. *)
C3_ChainEntities ==
  pc = "done" =>
    /\ EntitiesSet
    /\ \A p \in Unregistered :
          /\ CreatedForChain(p)
          /\ \A q \in AllChains :
                (ChainAt(q).entity = ChainAt(p).entity)
                   <=> (ChainAt(q).name = ChainAt(p).name)

\* A read that merged a SEQRES entity away and ended with a TER-split chain
\* A_H beside the registered chain A.
C3_Witness ==
  /\ pc = "done"
  /\ Registered(file, "A")
  /\ Len(entities) < Cardinality(SeqresNames) + Cardinality({ChainAt(p).name : p \in Unregistered})
  /\ \E p \in AllChains, q \in AllChains :
        /\ ChainAt(p).name = "A_H" /\ ChainAt(q).name = "A"
        /\ ChainAt(p).entity \in Owned

----------------------------------------------------------------------------
(* Errors *)

\* The record just read is of one of the types T.
JustRead(T) == Len(file) >= 1 /\ line.type \in T

\* The name a MODEL record gives.
ModelName(r) == ToString(read_int(r.serial, 4))

(* C4: every parse failure of the read pass carries the 1-based number of the
   offending line, the count of lines pulled so far, in its message, and no
   Structure is returned. *)
C4_FailWithLineNumber ==
  pc = "failed" =>
    /\ Len(err) >= 2
    /\ err[1] = "Problem in line "
    /\ err[2] = ToString(Len(file))
    /\ line_num = Len(file)

(* C5: a MODEL record that arrives while the parser is inside a model that a
   MODEL record opened and no ENDMDL has closed makes the read fail, whatever
   records came in between. *)
C5_ModelWithoutEndmdl ==
  ( /\ JustRead({"MODEL"})
    /\ LastOf(file, Len(file) - 1, {"MODEL", "ENDMDL"}) # 0
    /\ file[LastOf(file, Len(file) - 1, {"MODEL", "ENDMDL"})].type = "MODEL" )
  => pc = "failed"

\* All atoms of the models called M.
ModelAtoms(ms, M) ==
  LET RECURSIVE Sum(_, _)
      Sum(mi, ci) ==
        IF mi > Len(ms) THEN 0
        ELSE IF ci > Len(ms[mi].chains) THEN Sum(mi + 1, 1)
        ELSE (IF ms[mi].name = M THEN AtomsOfResidues(ms[mi].chains[ci].residues)
              ELSE 0) + Sum(mi, ci + 1)
  IN  Sum(1, 1)

\* The models a MODEL record opened and an ENDMDL, among the first n
\* records, closed.
Closed(f, n) ==
  { OpenModel(f, i - 1) :
      i \in {k \in 1..n : /\ f[k].type = "ENDMDL"
                           /\ LastOf(f, k - 1, {"MODEL", "ENDMDL"}) # 0} } \ {""}

\* The models, the implicit one included, that held an atom when an ENDMDL
\* closed them.
ClosedWithAtoms(f, n) ==
  { OpenModel(f, i - 1) :
      i \in {k \in 1..n : /\ f[k].type = "ENDMDL"
                           /\ \E j \in 1..(k - 1) :
                                 /\ f[j].type \in AtomTypes
                                 /\ OpenModel(f, j) = OpenModel(f, k - 1)} } \ {""}

\* An ATOM/HETATM of sufficient length read between ENDMDL and MODEL fails.
OrphanAtomFails ==
  (line'.type \in AtomTypes /\ line'.len >= 77 /\ OpenModel(file, Len(file)) = "")
    => pc' = "failed"

(* C6 as stated: every ATOM/HETATM of sufficient length read after an ENDMDL
   and before the next MODEL makes the read fail, and no atom is ever added
   to a model that an ENDMDL has closed. *)
C6_ClosedModelsFrozen ==
  [][ Len(file') = Len(file) + 1 =>
        /\ OrphanAtomFails
        /\ \A M \in Closed(file, Len(file)) :
              ModelAtoms(models', M) = ModelAtoms(models, M) ]_vars

(* C6, amended: every ATOM/HETATM of sufficient length read after an ENDMDL
   and before the next MODEL makes the read fail, and no atom is ever added
   to a model that held atoms when an ENDMDL closed it (a model closed while
   empty can be reopened by a MODEL record of its number and filled). *)
C6_OrphanAtom ==
  [][ Len(file') = Len(file) + 1 =>
        /\ OrphanAtomFails
        /\ \A M \in ClosedWithAtoms(file, Len(file)) :
              ModelAtoms(models', M) = ModelAtoms(models, M) ]_vars

\* An ATOM read after the ENDMDL of a model with atoms has failed.
C6_Witness ==
  /\ pc = "failed"
  /\ JustRead(AtomTypes)
  /\ line.len >= 77
  /\ OpenModel(file, Len(file) - 1) = ""
  /\ ClosedWithAtoms(file, Len(file) - 1) # {}

(* C7: an ANISOU record is accepted only when the record read immediately
   before it was an ATOM/HETATM (whose atom, just created, has no anisotropic
   parameters yet); otherwise the read fails. *)
C7_OrphanAnisou ==
  (JustRead({"ANISOU"}) /\ pc = "read") =>
     (Len(file) >= 2 /\ file[Len(file) - 1].type \in AtomTypes)

\* The MODEL blocks from which the models called M received atoms.
BlocksOf(M) == {b[2] : b \in {x \in blocks : x[1] = M}}

\* A MODEL naming a model with a chain fails; atoms of one model come from
\* one block; model names are unique.
DuplicateModelRule ==
  /\ ( JustRead({"MODEL"})
       /\ \E mi \in 1..Len(models) :
             models[mi].name = ModelName(line) /\ Len(models[mi].chains) >= 1 )
     => pc = "failed"
  /\ \A mi \in 1..Len(models) : Cardinality(BlocksOf(models[mi].name)) <= 1
  /\ \A mi \in 1..Len(models), mj \in 1..Len(models) :
        models[mi].name = models[mj].name => mi = mj

\* The MODEL record just read was accepted and made the implicit model current.
ReusedImplicit == pc # "failed" /\ model = 1 /\ chain = 0 /\ models[1].name = "1"

(* C8 as stated: a MODEL record naming a model that already has a chain makes
   the read fail, so no Model receives atoms from two MODEL blocks and no two
   Models share a name; a MODEL record naming the implicit model "1" while it
   is still empty is accepted and reuses it. *)
C8_EmptyImplicitAccepted ==
  /\ DuplicateModelRule
  /\ (JustRead({"MODEL"}) /\ ModelName(line) = "1" /\ Len(models[1].chains) = 0)
       => ReusedImplicit

(* C8, amended: as stated, except that a MODEL record naming the still empty
   implicit model "1" is accepted and reuses it when no chain is current;
   while a chain of another model is current it fails as MODEL without
   ENDMDL. *)
C8_DuplicateModel ==
  /\ DuplicateModelRule
  /\ (JustRead({"MODEL"}) /\ ModelName(line) = "1" /\ Len(models[1].chains) = 0)
       => IF InChain(file, Len(file) - 1)
          THEN pc = "failed" /\ err[4] = "MODEL without ENDMDL?"
          ELSE ReusedImplicit

\* A MODEL record naming a model that holds a chain has been refused as a
\* duplicate, in a file that has two models.
C8_Witness ==
  /\ JustRead({"MODEL"})
  /\ pc = "failed"
  /\ err[4] = "duplicate MODEL number: " \o ModelName(line)
  /\ Len(models) = 2
  /\ \E mi \in 1..Len(models) :
        models[mi].name = ModelName(line) /\ Len(models[mi].chains) >= 1

----------------------------------------------------------------------------
(* read_charge on its own: every pair over ChargeBytes as (line[78], line[79]) *)

ChargeBytes ==
  { Ord[" "], Ord["+"], Ord["-"], Ord["0"], Ord["2"], Ord["9"], Ord["X"],
    NUL, 10, 46 }

ChargeInit == ReaderInit /\ arg \in ChargeBytes \X ChargeBytes /\ ret = <<>>

CallReadCharge ==
  /\ ret = <<>>
  /\ ret' = read_charge(arg[1], arg[2])
  /\ UNCHANGED <<arg, file, line_num, pc, err, models, entities,
                 chain_to_ent_, has_ter, model, chain, resi, blocks,
                 conn_records, matrix, st>>

SpecCharge == ChargeInit /\ [][CallReadCharge]_vars

IsSign(c) == c = Ord["+"] \/ c = Ord["-"]

Signed(d, s) == (d - Ord["0"]) * (IF s = Ord["-"] THEN -1 ELSE 1)

\* The result is the charge v.
Returns(v) == ret.ok /\ ret.val = v

\* The call failed with the charge-format message.
Malformed == ~ret.ok /\ ret.msg[1] = "Wrong format for charge: "

(* C9 as stated: read_charge returns 0 for two blanks, +d / -d for the layouts
   d+, +d, d-, -d, fails as malformed for every other byte pair, and returns
   values in -9..9 only. *)
C9_OnlyTwoLayouts ==
  ret # <<>> =>
    LET a == arg[1]
        b == arg[2]
    IN  /\ IF a = Ord[" "] /\ b = Ord[" "] THEN Returns(0)
           ELSE IF isdigit(a) /\ IsSign(b) THEN Returns(Signed(a, b))
           ELSE IF IsSign(a) /\ isdigit(b) THEN Returns(Signed(b, a))
           ELSE Malformed
        /\ ret.ok => ret.val \in -9..9

\* What may stand beside the digit without a failure, besides a sign.
BlankLike(c) == c = NUL \/ isspace(c)

(* C9, amended: read_charge returns 0 for two blanks and +d / -d for the
   layouts d+, +d, d-, -d; a digit beside a space, other white space or NUL
   gives +d; it fails as malformed exactly when a digit stands beside any
   other byte (a second digit included); a pair without a digit gives 0
   without a failure.  Every returned value lies in -9..9. *)
C9_ReadCharge ==
  ret # <<>> =>
    LET a == arg[1]
        b == arg[2]
    IN  /\ IF a = Ord[" "] /\ b = Ord[" "] THEN Returns(0)
           ELSE IF isdigit(a) /\ IsSign(b) THEN Returns(Signed(a, b))
           ELSE IF IsSign(a) /\ isdigit(b) THEN Returns(Signed(b, a))
           ELSE IF isdigit(a) /\ BlankLike(b) THEN Returns(a - Ord["0"])
           ELSE IF BlankLike(a) /\ isdigit(b) THEN Returns(b - Ord["0"])
           ELSE IF isdigit(a) \/ isdigit(b) THEN Malformed
           ELSE Returns(0)
        /\ ret.ok => ret.val \in -9..9

\* The sign-first layout "-9" has been read as -9.
C9_Witness ==
  /\ ret # <<>>
  /\ arg = <<Ord["-"], Ord["9"]>>
  /\ Returns(-9)

----------------------------------------------------------------------------
(* read_snic on hybrid-36 fields *)

\* The decimal digits of n, most significant first.
RECURSIVE DecDigits(_)
DecDigits(n) ==
  IF n < 10 THEN <<Ord["0"] + n>>
  ELSE Append(DecDigits(n \div 10), Ord["0"] + (n % 10))

Pow36 == <<46656, 1296, 36, 1>>

\* The four base-36 digits of v, letters starting at the byte letterA.
Base36Field(v, letterA) ==
  [k \in 1..4 |->
     LET d == (v \div Pow36[k]) % 36
     IN  IF d < 10 THEN Ord["0"] + d ELSE letterA + (d - 10)]

\* The hybrid-36 encoding of n in a field of width 4: decimal, right
\* justified, up to 9999; then A000..ZZZZ; then a000..zzzz.
Hy36Encode(n) ==
  IF n < 10000
  THEN Spaces(4 - Len(DecDigits(n))) \o DecDigits(n)
  ELSE IF n < 10000 + 26 * 46656
       THEN Base36Field(n - 10000 + 10 * 46656, Ord["A"])
       ELSE Base36Field(n - (10000 + 26 * 46656) + 10 * 46656, Ord["a"])

\* The largest number of the upper-case range (ZZZZ) and of the field (zzzz).
MaxUpper == 10000 + 26 * 46656 - 1

MaxHy36 == 10000 + 2 * 26 * 46656 - 1

\* How far around each boundary of the encoding the inputs reach.
SnicWindow == 12

SnicInputs ==
  (0..SnicWindow)
    \cup ((9999 - SnicWindow)..(10000 + SnicWindow))
    \cup ((MaxUpper - SnicWindow)..(MaxUpper + 1 + SnicWindow))
    \cup ((MaxHy36 - SnicWindow)..MaxHy36)

SnicInit ==
  /\ ReaderInit
  /\ arg \in { [n |-> n, s |-> Hy36Encode(n) \o <<ic>>] :
                 n \in SnicInputs, ic \in {Ord[" "], Ord["A"]} }
  /\ ret = <<>>

CallReadSnic ==
  /\ ret = <<>>
  /\ ret' = read_snic(arg.s)
  /\ UNCHANGED <<arg, file, line_num, pc, err, models, entities,
                 chain_to_ent_, has_ter, model, chain, resi, blocks,
                 conn_records, matrix, st>>

SpecSnic == SnicInit /\ [][CallReadSnic]_vars

\* The four bytes of the sequence-number field are those of the characters.
FieldIs(c1, c2, c3, c4) ==
  SubSeq(arg.s, 1, 4) = <<Ord[c1], Ord[c2], Ord[c3], Ord[c4]>>

(* C10 as stated: for every n a 4-character hybrid-36 field can hold,
   read_snic of the encoding of n gives n; "9999" gives 9999, "A000" gives
   10000 and "ZZZZ" gives 2436111. *)
C10_RoundTripAll ==
  ret # <<>> =>
    /\ ret.seq_num = arg.n
    /\ FieldIs("9", "9", "9", "9") => ret.seq_num = 9999
    /\ FieldIs("A", "0", "0", "0") => ret.seq_num = 10000
    /\ FieldIs("Z", "Z", "Z", "Z") => ret.seq_num = 2436111

(* C10, amended: for every n from 0 to 1223055, the decimal and the
   upper-case range of the encoding, read_snic of the encoding of n gives n;
   "9999" gives 9999, "A000" gives 10000 and "ZZZZ" gives 1223055.  A field
   of the lower-case range (1223056..2436111) is read as its upper-case
   twin, 1213056 too low. *)
C10_RoundTrip ==
  ret # <<>> =>
    /\ arg.n <= 1223055 => ret.seq_num = arg.n
    /\ arg.n > 1223055 => ret.seq_num = arg.n - 1213056
    /\ FieldIs("9", "9", "9", "9") => ret.seq_num = 9999
    /\ FieldIs("A", "0", "0", "0") => ret.seq_num = 10000
    /\ FieldIs("Z", "Z", "Z", "Z") => ret.seq_num = 1223055

\* "ZZZZ", the encoding of 1223055, has been decoded.
C10_Witness ==
  /\ ret # <<>>
  /\ arg.n = 1223055
  /\ FieldIs("Z", "Z", "Z", "Z")
  /\ ret.seq_num = 1223055

----------------------------------------------------------------------------
(* The field scanners on short fields, with the indices of p that each
   scanner dereferences. *)

\* read_int: the space loop reads p[i] while i < field_length, the sign test
\* reads p[i] where the loop stopped, the digit loop reads while
\* i < field_length.
IntReads(p, field_length) ==
  LET i0 == SkipSpace(p, 0, field_length)
      i1 == IF At(p, i0) \in {Ord["-"], Ord["+"]} THEN i0 + 1 ELSE i0
      i2 == DigitsEnd(p, i1, field_length)
  IN  {j \in 0..(field_length - 1) : j <= i0}
        \cup {i0}
        \cup {j \in 0..(field_length - 1) : i1 <= j /\ j <= i2}

\* read_double: as read_int, then the fraction's digit loop.
DoubleReads(p, field_length) ==
  LET i0  == SkipSpace(p, 0, field_length)
      i1  == IF At(p, i0) \in {Ord["-"], Ord["+"]} THEN i0 + 1 ELSE i0
      i2  == DigitsEnd(p, i1, field_length)
      dot == i2 < field_length /\ At(p, i2) = Ord["."]
      i3  == IF dot THEN DigitsEnd(p, i2 + 1, field_length) ELSE i2
  IN  IntReads(p, field_length)
        \cup {j \in 0..(field_length - 1) : dot /\ i2 < j /\ j <= i3}

\* read_string: every loop tests field_length before it reads.
StringReads(p, field_length) ==
  LET o   == SkipSpace(p, 0, field_length)
      fl1 == EolCut(p, o, 0, field_length - o)
      fl2 == RTrim(p, o, fl1)
  IN  {j \in 0..(field_length - 1) : j <= o}
        \cup {o + i : i \in {k \in 0..(field_length - o - 1) : k <= fl1}}
        \cup {o + k - 1 : k \in {k \in 1..fl1 : k >= fl2}}

\* read_snic: s[0], the number in s[0..3] and s[4].
SnicReads(s) ==
  {0, 4} \cup (IF At(s, 0) < Ord["A"] THEN IntReads(s, 4) ELSE 0..3)

\* The widest field of the scanners with a field_length argument.
MaxScanWidth == 3

FieldBytes == {Ord[" "], Ord["1"], Ord["-"], Ord["."]}

\* The byte after the field.
FollowBytes == {Ord[" "], Ord["-"], Ord["+"], Ord["1"], Ord["."], NUL, 10}

Fields(widths) == UNION {[1..w -> FieldBytes] : w \in widths}

ScanCalls ==
  { [fn |-> fn, width |-> Len(f), p |-> f \o <<c>>] :
      fn \in {"read_int", "read_double", "read_string"},
      f \in Fields(1..MaxScanWidth), c \in FollowBytes }
  \cup { [fn |-> "read_snic", width |-> 5, p |-> f \o <<ic, c>>] :
           f \in [1..4 -> {Ord[" "], Ord["1"]}], ic \in {Ord[" "], Ord["A"]},
           c \in FollowBytes }
  \cup { [fn |-> "read_charge", width |-> 2, p |-> f \o <<c>>] :
           f \in [1..2 -> FieldBytes], c \in FollowBytes }

ScanInit == ReaderInit /\ arg \in ScanCalls /\ ret = <<>>

CallScanner ==
  /\ ret = <<>>
  /\ ret' =
       CASE arg.fn = "read_int" ->
              [val |-> read_int(arg.p, arg.width),
               reads |-> IntReads(arg.p, arg.width)]
         [] arg.fn = "read_double" ->
              [val |-> read_double(arg.p, arg.width),
               reads |-> DoubleReads(arg.p, arg.width)]
         [] arg.fn = "read_string" ->
              [val |-> read_string(arg.p, arg.width),
               reads |-> StringReads(arg.p, arg.width)]
         [] arg.fn = "read_snic" ->
              [val |-> read_snic(arg.p), reads |-> SnicReads(arg.p)]
         [] OTHER ->
              \* read_charge(line[78], line[79]): two bytes by value
              [val |-> read_charge(arg.p[1], arg.p[2]), reads |-> {0, 1}]
  /\ UNCHANGED <<arg, file, line_num, pc, err, models, entities,
                 chain_to_ent_, has_ter, model, chain, resi, blocks,
                 conn_records, matrix, st>>

SpecScan == ScanInit /\ [][CallScanner]_vars

\* The field of the call is filled with spaces.
BlankField == \A i \in 1..arg.width : arg.p[i] = Ord[" "]

\* The result is the scanner's neutral value (-0.0 counts as 0).
NeutralResult ==
  CASE arg.fn = "read_int" -> ret.val = 0
    [] arg.fn = "read_double" -> ret.val.num = 0
    [] arg.fn = "read_string" -> ret.val = <<>>
    [] arg.fn = "read_snic" -> ret.val.seq_num = 0 /\ ret.val.icode = NUL
    [] OTHER -> ret.val.ok /\ ret.val.val = 0

(* C11: every field scanner applied to a field of its declared width filled
   with spaces returns the neutral value and reads no byte at an index >= the
   declared width, whatever byte follows the field. *)
C11_ColumnSafety ==
  (ret # <<>> /\ BlankField) =>
    /\ NeutralResult
    /\ \A i \in ret.reads : i < arg.width

----------------------------------------------------------------------------
(* The reader on files with SSBOND and CISPEP records: atoms of three
   residues in two chains, a second model, bonds that resolve and bonds
   that name a missing residue or a missing chain. *)

MaxConnLines == 5

ConnAtomInputs ==
  { AtomRecord("ATOM", 80, "A", "1", Ord[" "], Ord[" "]),
    AtomRecord("ATOM", 80, "A", "2", Ord[" "], Ord[" "]),
    AtomRecord("ATOM", 80, "B", "1", Ord[" "], Ord[" "]) }

SsbondInputs ==
  { SsbondRecord("A", "1", "A", "2"),
    SsbondRecord("A", "1", "B", "1"),
    SsbondRecord("A", "2", "A", "3"),
    SsbondRecord("C", "1", "A", "1"),
    [SsbondRecord("A", "1", "A", "2") EXCEPT !.len = 34] }

NextConn ==
  \/ More(MaxConnLines) /\ \E r \in ConnAtomInputs : ReadAtom(r)
  \/ More(MaxConnLines) /\ ReadEndmdl(PlainRecord("ENDMDL", 7))
  \/ More(MaxConnLines) /\ ReadModel(ModelRecord("2"))
  \/ More(MaxConnLines) /\ \E r \in SsbondInputs : ReadSsbond(r)
  \/ More(MaxConnLines) /\ ReadCispep(CispepRecord("A", "1"))
  \/ ReadEof

SpecConn == Init /\ [][NextConn]_vars

\* The buffered SSBOND records, by their index in conn_records.
Ssbonds == {j \in 1..Len(conn_records) : conn_records[j].type = "SSBOND"}

\* Where model m holds the residue a record names: <<chain, residue>>.
ResidueNamed(m, chain_name, snic, res_name) ==
  { <<ci, ri>> \in (1..Len(m.chains)) \X (1..3) :
      /\ ri <= Len(m.chains[ci].residues)
      /\ m.chains[ci].name = chain_name
      /\ m.chains[ci].residues[ri].rid =
            [snic |-> read_snic(snic), segment |-> "", name |-> res_name] }

Partner1(m, r) == ResidueNamed(m, r.chain1, r.snic1, r.res_name1)

Partner2(m, r) == ResidueNamed(m, r.chain2, r.snic2, r.res_name2)

\* Both chains and both residues of the record are found in the model.
Resolves(m, r) == Partner1(m, r) # {} /\ Partner2(m, r) # {}

\* The SSBOND records that resolve in model mi, in buffer order.
Linked(mi) == {j \in Ssbonds : Resolves(models[mi], conn_records[j])}

NthOf(S, k) == CHOOSE j \in S : Cardinality({i \in S : i <= j}) = k

\* The tags a residue must carry given the model's connections.
RECURSIVE TagsOf(_, _, _)
TagsOf(m, at, k) ==
  IF k > Len(m.connections) THEN <<>>
  ELSE LET c == m.connections[k]
       IN  (IF c.res1 = at THEN <<"1 " \o c.id>> ELSE <<>>)
             \o (IF c.res2 = at THEN <<"2 " \o c.id>> ELSE <<>>)
             \o TagsOf(m, at, k + 1)

(* C12: after process_conn every model holds one Disulf connection per
   buffered SSBOND record whose two chains and two residues are found in
   it, between those residues and in buffer order, and no other connection;
   every residue's conn list holds exactly the tags "1 <id>" and "2 <id>" of
   the connections it is res1 or res2 of. *)
C12_SsbondLinking ==
  pc = "done" =>
    \A mi \in 1..Len(models) :
      LET m == models[mi]
      IN  /\ Len(m.connections) = Cardinality(Linked(mi))
          /\ \A k \in 1..Len(m.connections) :
                LET r == conn_records[NthOf(Linked(mi), k)]
                IN  /\ m.connections[k].type = "Disulf"
                    /\ m.connections[k].res1 \in Partner1(m, r)
                    /\ m.connections[k].res2 \in Partner2(m, r)
          /\ \A ci \in 1..Len(m.chains) :
                \A ri \in 1..Len(m.chains[ci].residues) :
                  m.chains[ci].residues[ri].conn = TagsOf(m, <<ci, ri>>, 1)

\* Two models and a bond that resolves in the first and not in the second:
\* the first holds the connection and the tags, the second nothing.
C12_Witness ==
  /\ pc = "done"
  /\ Len(models) = 2
  /\ Len(models[1].connections) = 1
  /\ Len(models[2].connections) = 0
  /\ \E j \in Ssbonds : /\ Resolves(models[1], conn_records[j])
                         /\ ~Resolves(models[2], conn_records[j])
  /\ \E ci \in 1..Len(models[1].chains) :
        \E ri \in 1..Len(models[1].chains[ci].residues) :
          models[1].chains[ci].residues[ri].conn # <<>>

\* The (record, model) pairs that gave a connection, in creation order:
\* record by record, and model by model for each record.
Created == {q \in Ssbonds \X (1..Len(models)) : q[1] \in Linked(q[2])}

CreationRank(j, mi) ==
  Cardinality({q \in Created : q[1] < j \/ (q[1] = j /\ q[2] <= mi)})

(* C20: the connections process_conn created carry the ids disulf1,
   disulf2, ... in creation order, without gaps or repeats, whether or not
   some SSBOND records or some models fail to resolve their residues. *)
C20_DisulfIds ==
  pc = "done" =>
    \A mi \in 1..Len(models) :
      \A k \in 1..Len(models[mi].connections) :
        Cardinality(Linked(mi)) = Len(models[mi].connections) =>
          models[mi].connections[k].id =
            "disulf" \o ToString(CreationRank(NthOf(Linked(mi), k), mi))

----------------------------------------------------------------------------
(* UnitCell::find_nearest_image (unitcell.hpp), for cells with right angles.

   Lengths are integers counting 0.1 A, so squared lengths count 0.01 A^2;
   a fractional coordinate is the exact quotient num / den.  The rounding of
   double arithmetic is left out. *)

Vec3(x, y, z) == <<x, y, z>>

\* std::round to int: the nearest integer, halves away from zero.
iround(q) ==
  IF q.num >= 0 THEN (2 * q.num + q.den) \div (2 * q.den)
  ELSE -((2 * (-q.num) + q.den) \div (2 * q.den))

\* floor to int
ifloor(q) == q.num \div q.den

\* Vec3::dist_sq
dist_sq(u, v) ==
  (u[1] - v[1]) * (u[1] - v[1]) + (u[2] - v[2]) * (u[2] - v[2])
    + (u[3] - v[3]) * (u[3] - v[3])

\* Vec3::length_sq
length_sq(v) == v[1] * v[1] + v[2] * v[2] + v[3] * v[3]

\* UnitCell::set with alpha = beta = gamma = 90: calculate_properties gives
\* orth.mat = diag(a, b, c) and frac.mat = diag(1/a, 1/b, 1/c).
UnitCell(a, b, c, images) == [edge |-> <<a, b, c>>, images |-> images]

\* a != 1.0 && frac.mat[0][0] != 1.0, where frac.mat[0][0] = 1/a
is_crystal(cell) == cell.edge[1] # 10

\* frac.apply(o): each coordinate times 1/edge
fractionalize(cell, o) == [i \in 1..3 |-> [num |-> o[i], den |-> cell.edge[i]]]

\* orth.apply(f): each coordinate times edge
orthogonalize(cell, f) ==
  [i \in 1..3 |-> (cell.edge[i] * f[i].num) \div f[i].den]

\* Fractional::operator-
FracMinus(f, g) ==
  [i \in 1..3 |-> [num |-> f[i].num * g[i].den - g[i].num * f[i].den,
                    den |-> f[i].den * g[i].den]]

\* FTransform::apply for a transform with a diagonal matrix: mat * p + vec
FTransformApply(t, f) ==
  [i \in 1..3 |-> [num |-> t.mat[i] * f[i].num * t.vec[i].den
                              + t.vec[i].num * f[i].den,
                    den |-> f[i].den * t.vec[i].den]]

\* dsq < image.dist_sq, where image.dist_sq may be INFINITY
LessThan(dsq, d) == d.inf \/ dsq < d.val

\* A search that rounds the displacement down instead of to the nearest.
FloorSearch(cell, diff, image) ==
  LET box == [j \in 1..3 |-> ifloor(diff[j])]
      dsq == length_sq(orthogonalize(cell,
               [j \in 1..3 |-> [num |-> diff[j].num - box[j] * diff[j].den,
                                den |-> diff[j].den]]))
  IN  IF LessThan(dsq, image.dist_sq)
      THEN [found |-> TRUE,
            image |-> [image EXCEPT !.dist_sq = [inf |-> FALSE, val |-> dsq],
                                    !.box = box]]
      ELSE [found |-> FALSE, image |-> image]

\* UnitCell::search_pbc_images: whether the image was replaced, and the image.
search_pbc_images(cell, diff, image) ==
  LET box == [j \in 1..3 |-> iround(diff[j])]
      dsq == length_sq(orthogonalize(cell,
               [j \in 1..3 |-> [num |-> diff[j].num - box[j] * diff[j].den,
                                den |-> diff[j].den]]))
  IN  IF LessThan(dsq, image.dist_sq)
      THEN [found |-> TRUE,
            image |-> [image EXCEPT !.dist_sq = [inf |-> FALSE, val |-> dsq],
                                    !.box = box]]
      ELSE [found |-> FALSE, image |-> image]

INFINITY == [inf |-> TRUE, val |-> 0]

\* image.dist_sq == 0.0
IsZero(d) == ~d.inf /\ d.val = 0

\* The loop over images, from images[n] on (n counts from 0 as in the code).
RECURSIVE SearchImages(_, _, _, _, _)
SearchImages(cell, fpos, fref, image, n) ==
  IF n = Len(cell.images) THEN image
  ELSE LET s == search_pbc_images(
                  cell, FracMinus(FTransformApply(cell.images[n + 1], fpos), fref),
                  image)
       IN  SearchImages(cell, fpos, fref,
                        IF s.found THEN [s.image EXCEPT !.sym_id = n + 1]
                        ELSE s.image,
                        n + 1)

\* A search that lets the identity image at zero offset stand in mode
\* Different.
NearestWithIdentity(cell, ref, pos, sym_image) ==
  LET image == [dist_sq |-> [inf |-> FALSE, val |-> dist_sq(ref, pos)],
                box |-> <<0, 0, 0>>, sym_id |-> 0]
  IN  IF sym_image = "Same" \/ ~is_crystal(cell)
      THEN IF IsZero(image.dist_sq)
           THEN [image EXCEPT !.dist_sq = INFINITY]
           ELSE image
      ELSE
      LET fpos   == fractionalize(cell, pos)
          fref   == fractionalize(cell, ref)
          image1 == search_pbc_images(cell, FracMinus(fpos, fref), image).image
          image2 == IF IsZero(image1.dist_sq) /\ image1.box = <<0, 0, 0>>
                    THEN [image1 EXCEPT !.dist_sq = INFINITY]
                    ELSE image1
      IN  SearchImages(cell, fpos, fref, image2, 0)

find_nearest_image(cell, ref, pos, sym_image) ==
  LET image == [dist_sq |-> [inf |-> FALSE, val |-> dist_sq(ref, pos)],
                box |-> <<0, 0, 0>>, sym_id |-> 0]
  IN  IF sym_image = "Same" \/ ~is_crystal(cell)
      THEN IF sym_image = "Different" \/ IsZero(image.dist_sq)
           THEN [image EXCEPT !.dist_sq = INFINITY]
           ELSE image
      ELSE
      LET fpos   == fractionalize(cell, pos)
          fref   == fractionalize(cell, ref)
          image1 == search_pbc_images(cell, FracMinus(fpos, fref), image).image
          image2 == IF /\ sym_image = "Different" \/ IsZero(image1.dist_sq)
                       /\ image1.box = <<0, 0, 0>>
                    THEN [image1 EXCEPT !.dist_sq = INFINITY]
                    ELSE image1
      IN  SearchImages(cell, fpos, fref, image2, 0)

\* The inversion through the origin, as an image.
Inversion ==
  [mat |-> <<-1, -1, -1>>, vec |-> [i \in 1..3 |-> [num |-> 0, den |-> 1]]]

\* 10 x 10 x 10 A without and with an image, and the default 1 x 1 x 1 cell.
CellInputs ==
  { UnitCell(100, 100, 100, <<>>), UnitCell(100, 100, 100, <<Inversion>>),
    UnitCell(10, 10, 10, <<>>) }

\* Coordinates of pos, in 0.1 A: 0.1, 5.0 and 9.8 A.
PosCoords == {1, 50, 98}

ImageInit ==
  /\ ReaderInit
  /\ arg \in [cell : CellInputs, ref : {Vec3(1, 1, 1)},
               pos : PosCoords \X PosCoords \X PosCoords,
               sym_image : {"Same", "Different", "Unspecified"}]
  /\ ret = <<>>

CallFindNearestImage ==
  /\ ret = <<>>
  /\ ret' = find_nearest_image(arg.cell, arg.ref, arg.pos, arg.sym_image)
  /\ UNCHANGED <<arg, file, line_num, pc, err, models, entities,
                 chain_to_ent_, has_ter, conn_records, model, chain, resi,
                 blocks, matrix, st>>

SpecImage == ImageInit /\ [][CallFindNearestImage]_vars

\* The call of the example: the 10 A cube without images, ref at 0.1 A and
\* pos at 9.8 A on every axis, mode Unspecified.
CornerCall ==
  /\ arg.cell = UnitCell(100, 100, 100, <<>>)
  /\ arg.ref = Vec3(1, 1, 1)
  /\ arg.pos = Vec3(98, 98, 98)
  /\ arg.sym_image = "Unspecified"

(* C13 as stated: the call of the example returns box = (1,1,1), sym_id = 0
   and a distance of 0.9, that is dist_sq = 0.81 (81 in units of 0.01 A^2). *)
C13_DistancePointNine ==
  (ret # <<>> /\ CornerCall) =>
    /\ ret.box = <<1, 1, 1>>
    /\ ret.sym_id = 0
    /\ ret.dist_sq = [inf |-> FALSE, val |-> 81]

(* C13, amended: the call of the example returns box = (1,1,1), sym_id = 0
   and dist_sq = 0.27 (27 in units of 0.01 A^2), a distance of about 0.52. *)
C13_NearestImage ==
  (ret # <<>> /\ CornerCall) =>
    /\ ret.box = <<1, 1, 1>>
    /\ ret.sym_id = 0
    /\ ret.dist_sq = [inf |-> FALSE, val |-> 27]

C13_Witness ==
  /\ ret # <<>>
  /\ CornerCall
  /\ ret.box = <<1, 1, 1>>
  /\ ~ret.dist_sq.inf

----------------------------------------------------------------------------
(* The reader on HEADER and TITLE lines of several lengths *)

MaxHeaderLines == 3

\* A line that ends after its keyword, one that ends inside the keyword
\* columns, one that ends after them, one with the date, a full line.
HeaderLens == {12, 40, 51, 60, 81}

HeaderInputs ==
  { HeaderRecord(len, <<Ord[w]>>,
                 IF len > 59 THEN date ELSE <<>>,
                 IF len > 66 THEN <<Ord["1"], Ord["A"], Ord["B"], Ord["C"]>>
                 ELSE <<>>) :
      len \in HeaderLens, w \in {"K", "L"},
      date \in { <<Ord["2"], Ord["8"], Ord["-"], Ord["M"], Ord["A"], Ord["R"],
                   Ord["-"], Ord["0"], Ord["7"]>>,
                 <<Ord["0"], Ord["1"], Ord["-"], Ord["X"], Ord["Y"], Ord["Z"],
                   Ord["-"], Ord["9"], Ord["9"]>> } }

NextHeader ==
  \/ More(MaxHeaderLines) /\ \E r \in HeaderInputs : ReadHeader(r)
  \/ More(MaxHeaderLines)
       /\ \E t \in {<<Ord["T"]>>, <<Ord["T"], Ord[" "]>>} :
            ReadText(TextRecord("TITLE", t), "_struct.title")
  \/ ReadEof

SpecHeader == Init /\ [][NextHeader]_vars

\* The step reads a HEADER record.
ReadsHeader ==
  /\ Len(file') = Len(file) + 1
  /\ file'[Len(file')].type = "HEADER"

\* s is t without its trailing white space.
IsTrimmed(s, t) ==
  /\ Len(s) <= Len(t)
  /\ SubSeq(t, 1, Len(s)) = s
  /\ \A i \in (Len(s) + 1)..Len(t) : isspace(t[i])
  /\ Len(s) > 0 => ~isspace(s[Len(s)])

\* info holds the keyword columns of record r.
KeywordsStored(info, r) ==
  /\ "_struct_keywords.pdbx_keywords" \in DOMAIN info
  /\ IsTrimmed(info["_struct_keywords.pdbx_keywords"], r.text)

(* C15 as stated: every HEADER record longer than 10 stores columns 10..50
   of the line, right-trimmed, under _struct_keywords.pdbx_keywords, whether
   or not the line reaches the date or the entry id. *)
C15_HeaderOverTen ==
  [][ (ReadsHeader /\ file'[Len(file')].len > 10)
        => KeywordsStored(st'.info, file'[Len(file')]) ]_vars

(* C15, amended: every HEADER record longer than 50 stores columns 10..50
   of the line, right-trimmed, under _struct_keywords.pdbx_keywords, whether
   or not the line reaches the date or the entry id; a HEADER record of
   length 50 or less leaves info as it was. *)
C15_HeaderKeywords ==
  [][ ReadsHeader =>
        IF file'[Len(file')].len > 50
        THEN KeywordsStored(st'.info, file'[Len(file')])
        ELSE st'.info = st.info ]_vars

\* A HEADER line too short for the date has stored its keyword after an
\* earlier line had stored another.
C15_Witness ==
  /\ pc = "read"
  /\ Len(file) = 2
  /\ line.type = "HEADER" /\ line.len = 51
  /\ file[1].type = "HEADER" /\ file[1].len = 81
  /\ file[1].text # line.text
  /\ KeywordsStored(st.info, line)
  /\ "_entry.id" \in DOMAIN st.info

----------------------------------------------------------------------------
(* The reader on MTRIXn, SCALEn and ORIGXn lines *)

MaxMatrixLines == 4

\* Rows of MTRIX with the value 1 (the rows of identity) or 2, a MTRIX3
\* that ends before column 46, rows of SCALE with 3 and of ORIGX with 4.
MatrixInputs ==
  { MatrixRecord("MTRIXn", 81, n, v) : n \in 1..3, v \in {"1", "2"} }
    \cup { MatrixRecord("MTRIXn", 45, 3, "2") }
    \cup { MatrixRecord("SCALEn", 81, n, "3") : n \in 1..3 }
    \cup { MatrixRecord("ORIGX", 81, n, "4") : n \in 1..3 }

NextMatrix ==
  \/ More(MaxMatrixLines)
       /\ \E r \in {i \in MatrixInputs : i.type = "MTRIXn"} : ReadMtrix(r)
  \/ More(MaxMatrixLines)
       /\ \E r \in {i \in MatrixInputs : i.type = "SCALEn"} : ReadScale(r)
  \/ More(MaxMatrixLines)
       /\ \E r \in {i \in MatrixInputs : i.type = "ORIGX"} : ReadOrigx(r)
  \/ ReadEof

SpecMatrix == Init /\ [][NextMatrix]_vars

\* The step reads a record; the record is the last of file'.
ReadsRecord == Len(file') = Len(file) + 1

Last(f) == f[Len(f)]

\* The step reads a full-length row-3 record of a matrix triplet.
ReadsRow3 ==
  /\ ReadsRecord
  /\ Last(file').type \in {"MTRIXn", "SCALEn", "ORIGX"}
  /\ Last(file').row = Ord["3"]
  /\ Last(file').len >= 46

\* C16: after the row-3 record of any MTRIX, SCALE or ORIGX triplet has
\* been processed the shared accumulator equals the identity matrix.
C16_AccumulatorReset == [][ ReadsRow3 => matrix' = identity ]_vars

\* The value of a one-digit field of ten columns.
FieldValue(f) == [num |-> f[10] - Ord["0"], exp |-> 0]

\* The accumulator m with row 3 taken from the columns of the record r.
WithRow3(m, r) ==
  [x |-> <<m.x[1], m.x[2], FieldValue(r.mx), m.x[4]>>,
   y |-> <<m.y[1], m.y[2], FieldValue(r.my), m.y[4]>>,
   z |-> <<m.z[1], m.z[2], FieldValue(r.mz), m.z[4]>>,
   w |-> <<m.w[1], m.w[2], FieldValue(r.mw), m.w[4]>>]

\* The record the step reads commits an NCS operator.
Commits ==
  /\ Last(file').type = "MTRIXn"
  /\ Last(file').row = Ord["3"]
  /\ Last(file').len >= 46
  /\ WithRow3(matrix, Last(file')) # identity

\* C17: structure.ncs grows by exactly one entry, the assembled accumulator,
\* on a MTRIX record with row digit 3 and length >= 46 whose assembled
\* accumulator differs from identity, and is left alone by every other
\* record; no entry of ncs is the identity matrix.
C17_NcsCommit ==
  [][ /\ ReadsRecord =>
           IF Commits
           THEN /\ Len(st'.ncs) = Len(st.ncs) + 1
                /\ SubSeq(st'.ncs, 1, Len(st.ncs)) = st.ncs
                /\ Last(st'.ncs).transform = WithRow3(matrix, Last(file'))
           ELSE st'.ncs = st.ncs
      /\ \A i \in 1..Len(st'.ncs) : st'.ncs[i].transform # identity ]_vars

\* Rows 1 and 2 were accumulated, and a third MTRIX row has been committed
\* after an identity triplet and a short MTRIX3 left ncs empty.
C17_Witness ==
  /\ Len(file) = 4
  /\ file[1].len = 45
  /\ file[2].row = Ord["1"] /\ file[2].type = "MTRIXn"
  /\ file[3].row = Ord["2"] /\ file[3].type = "MTRIXn"
  /\ file[4].row = Ord["3"] /\ file[4].type = "MTRIXn"
  /\ Len(st.ncs) = 1
  /\ st.ncs[1].transform.x[1] = [num |-> 2, exp |-> 0]


----------------------------------------------------------------------------
(* The reader on lines whose record name is spelled in several cases and
   followed by a space or by the end of the line *)

MaxCaseLines == 3

\* The name in upper case and in mixed case, then a space (the line goes
\* on), a line feed (the line ends there) or the carriage return of CR LF.
CaseHeads(a, b, c, la, lb, lc) ==
  { <<Ord[a], Ord[b], Ord[c], e>> : e \in {Ord[" "], LF, CR} }
    \cup { <<Ord[la], Ord[b], Ord[lc], e>> : e \in {Ord[" "], LF, CR} }
    \cup { <<Ord[la], Ord[lb], Ord[lc], Ord[" "]>> }

\* strlen of a line that holds a three-letter name and what follows it.
CaseLen(head) ==
  IF head[4] = LF THEN 4 ELSE IF head[4] = CR THEN 5 ELSE 81

CaseInputs ==
  { [AtomRecord("ATOM", 80, "A", d, Ord[" "], Ord[" "]) EXCEPT !.head = h] :
      d \in {"1", "2"},
      h \in { <<Ord["A"], Ord["T"], Ord["O"], Ord["M"]>>,
              <<Ord["a"], Ord["t"], Ord["o"], Ord["m"]>> } }
    \cup { [PlainRecord("", CaseLen(h)) EXCEPT !.head = h] :
             h \in CaseHeads("T", "E", "R", "t", "e", "r")
                     \cup CaseHeads("E", "N", "D", "e", "n", "d") }
    \cup { [PlainRecord("", 7) EXCEPT
              !.head = <<Ord["E"], Ord["N"], Ord["D"], Ord["M"]>>],
           [PlainRecord("", 81) EXCEPT
              !.head = <<Ord["T"], Ord["E"], Ord["R"], Ord["M"]>>] }

NextCase ==
  \/ More(MaxCaseLines) /\ \E l \in CaseInputs : ReadLine(l)
  \/ ReadEof

SpecCase == Init /\ [][NextCase]_vars

ToUpper(b) == IF b >= Ord["a"] /\ b <= Ord["z"] THEN b - 32 ELSE b

\* The line's record name is the three letters a b c in some letter case,
\* followed by a space or by the end of the line.
Spelled(head, a, b, c) ==
  /\ <<ToUpper(head[1]), ToUpper(head[2]), ToUpper(head[3])>>
       = <<Ord[a], Ord[b], Ord[c]>>
  /\ head[4] \in {Ord[" "], NUL, LF, CR}

\* C14: a line whose record name is TER in any letter case, a bare "TER"
\* before the line terminator included, closes the current chain and records
\* it in has_ter; such an END line stops the read loop.
C14_TerEndAnyCase ==
  [][ ReadsRecord =>
        /\ Spelled(Last(file').head, "T", "E", "R") =>
             /\ chain' = 0
             /\ has_ter' = IF chain # 0
                           THEN Append(has_ter,
                                       ter_key(models[model].name,
                                               models[model].chains[chain].name))
                           ELSE has_ter
        /\ Spelled(Last(file').head, "E", "N", "D") => pc' = "done" ]_vars

----------------------------------------------------------------------------
(* copy_line_from_stream on a stream of bytes *)

\* std::fgets(line, size, f) with the stream at pos: at most size - 1
\* bytes, up to and including a line feed; NULL when no byte is left.
fgets(stream, pos, size) ==
  LET last  == IF pos + size - 1 < Len(stream) THEN pos + size - 1
               ELSE Len(stream)
      feeds == {i \in (pos + 1)..last : stream[i] = LF}
      stop  == IF feeds = {} THEN last
               ELSE CHOOSE i \in feeds : \A j \in feeds : i <= j
  IN  [ok |-> pos < Len(stream), line |-> SubSeq(stream, pos + 1, stop),
       pos |-> stop]

\* std::strlen of the buffer fgets filled and terminated with NUL
strlen(buf) ==
  LET nuls == {i \in 1..Len(buf) : buf[i] = NUL}
  IN  IF nuls = {} THEN Len(buf)
      ELSE (CHOOSE i \in nuls : \A j \in nuls : i <= j) - 1

\* The stream position after the loop
\*   for (c = getc(); c != 0 && c != EOF && c != '\n'; c = getc()) continue;
\* the byte that ends the loop is consumed.
discard(stream, pos) ==
  LET stops == {i \in (pos + 1)..Len(stream) : stream[i] \in {NUL, LF}}
  IN  IF stops = {} THEN Len(stream)
      ELSE CHOOSE i \in stops : \A j \in stops : i <= j

\* A discard loop that ends at a line feed or at the end of the stream only.
DiscardToFeed(stream, pos) ==
  LET stops == {i \in (pos + 1)..Len(stream) : stream[i] = LF}
  IN  IF stops = {} THEN Len(stream)
      ELSE CHOOSE i \in stops : \A j \in stops : i <= j

\* copy_line_from_stream: the value returned, the C string left in line
\* and the position the stream is left at.
copy_line_from_stream(stream, pos, size) ==
  LET g   == fgets(stream, pos, size)
      len == strlen(g.line)
  IN  IF ~g.ok THEN [len |-> 0, line |-> <<>>, pos |-> pos]
      ELSE [len |-> len, line |-> SubSeq(g.line, 1, len),
            pos |-> IF len > 0 /\ g.line[len] # LF
                    THEN discard(stream, g.pos) ELSE g.pos]

MaxStream == 6

\* The buffer sizes the calls are made with (the reader passes 82).
BufferSizes == {3, 4}

RECURSIVE SeqsUpTo(_, _)
SeqsUpTo(S, n) ==
  IF n = 0 THEN {<<>>}
  ELSE LET shorter == SeqsUpTo(S, n - 1)
       IN  shorter \cup {Append(q, b) : q \in shorter, b \in S}

\* Every stream of at most MaxStream bytes over a letter, the line feed
\* and the NUL byte; the loop calls until 0 is returned.
StreamInit ==
  /\ ReaderInit
  /\ \E q \in SeqsUpTo({Ord["A"], LF, NUL}, MaxStream) : \E size \in BufferSizes :
       arg = [stream |-> q, size |-> size, pos |-> 0, looping |-> TRUE]
  /\ ret = <<>>

\* while (size_t len = copy_line_from_stream(line, size, infile))
CallCopyLine ==
  /\ arg.looping
  /\ LET c == copy_line_from_stream(arg.stream, arg.pos, arg.size)
     IN  /\ arg' = [arg EXCEPT !.pos = c.pos, !.looping = c.len # 0]
         /\ ret' = IF c.len # 0 THEN Append(ret, c.line) ELSE ret
  /\ UNCHANGED readerVars

SpecStream == StreamInit /\ [][CallCopyLine]_vars

\* The physical lines of a stream from position pos on: each ends with its
\* line feed, the last one at the end of the stream.
RECURSIVE PhysicalLines(_, _)
PhysicalLines(stream, pos) ==
  IF pos >= Len(stream) THEN <<>>
  ELSE LET end == DiscardToFeed(stream, pos)
       IN  <<SubSeq(stream, pos + 1, end)>> \o PhysicalLines(stream, end)

Truncated(l, size) == IF Len(l) > size - 1 THEN SubSeq(l, 1, size - 1) ELSE l

\* What the calls made so far were to deliver.
Framed ==
  LET lines == PhysicalLines(arg.stream, 0)
  IN  /\ Len(ret) <= Len(lines)
      /\ \A k \in 1..Len(ret) : ret[k] = Truncated(lines[k], arg.size)
      /\ ~arg.looping => Len(ret) = Len(lines) /\ arg.pos = Len(arg.stream)

\* C18: the calls deliver the physical lines of the input in order, each
\* truncated to its first size - 1 bytes, and 0 is returned only at the
\* end of the input.
C18_LineFraming == "stream" \in DOMAIN arg => Framed

\* The same for streams without a NUL byte.
C18_TextFraming ==
  ("stream" \in DOMAIN arg /\ \A i \in 1..Len(arg.stream) : arg.stream[i] # NUL)
    => Framed


----------------------------------------------------------------------------
(* Residue grouping *)

\* The step reads an ATOM or HETATM record and stores its atom.
StoresAtom ==
  /\ ReadsRecord
  /\ Last(file').type \in {"ATOM", "HETATM"}
  /\ pc' = "read"

\* The residue id in the columns of the record, for the one-digit sequence
\* numbers of AtomInputs.
RidOf(r) ==
  [snic |-> [seq_num |-> r.snic[4] - Ord["0"], icode |-> NUL],
   segment |-> "", name |-> r.res_name]

\* The residues the chain of the atom had before the step: none when the
\* step created the chain.
ResiduesBefore ==
  IF chain' <= Len(models[model].chains)
  THEN models[model].chains[chain'].residues ELSE <<>>

ResiduesAfter == models'[model].chains[chain'].residues

\* The residue the reader was in, when the record stays in its chain and
\* carries its id.
InCurrent ==
  /\ chain' = chain /\ resi # 0
  /\ ResiduesBefore[resi].rid = RidOf(Last(file'))

\* The atom went to the residue at index k, which had the atoms before.
AtomAddedAt(k, before) ==
  /\ resi' = k
  /\ ResiduesAfter[k].rid = RidOf(Last(file'))
  /\ Len(ResiduesAfter[k].atoms) = Len(before) + 1
  /\ SubSeq(ResiduesAfter[k].atoms, 1, Len(before)) = before
  /\ \A i \in 1..Len(ResiduesBefore) :
       i # k => ResiduesAfter[i] = ResiduesBefore[i]

OpensResidue ==
  /\ Len(ResiduesAfter) = Len(ResiduesBefore) + 1
  /\ AtomAddedAt(Len(ResiduesAfter), <<>>)

\* C19 as stated: a record with the id of the current residue is appended
\* to it, and a record with another id always opens a new residue after
\* the existing ones.
C19_AlwaysNewResidue ==
  [][ StoresAtom =>
        IF InCurrent
        THEN /\ Len(ResiduesAfter) = Len(ResiduesBefore)
             /\ AtomAddedAt(resi, ResiduesBefore[resi].atoms)
        ELSE OpensResidue ]_vars

\* C19: a record with the id of the current residue is appended to it; a
\* record with another id is appended to the first residue of its chain
\* that has this id, and opens a new residue after the existing ones only
\* when the chain has none.
C19_ResidueGrouping ==
  [][ StoresAtom =>
        LET same == {i \in 1..Len(ResiduesBefore) :
                       ResiduesBefore[i].rid = RidOf(Last(file'))}
        IN  IF InCurrent
            THEN /\ Len(ResiduesAfter) = Len(ResiduesBefore)
                 /\ AtomAddedAt(resi, ResiduesBefore[resi].atoms)
            ELSE IF same # {}
            THEN /\ Len(ResiduesAfter) = Len(ResiduesBefore)
                 /\ \E k \in same :
                      /\ \A j \in same : k <= j
                      /\ AtomAddedAt(k, ResiduesBefore[k].atoms)
            ELSE OpensResidue ]_vars

\* Residues 1 and 2 of chain A were opened and a later record of residue 1
\* went back into the first; the atom after it went to the current one.
C19_Witness ==
  /\ pc = "read" /\ model = 1 /\ chain = 1 /\ resi = 1
  /\ Len(file) = 4
  /\ \A i \in 1..4 : file[i].type = "ATOM"
  /\ Len(models[1].chains[1].residues) = 2
  /\ Len(models[1].chains[1].residues[1].atoms) = 3
  /\ Len(models[1].chains[1].residues[2].atoms) = 1


----------------------------------------------------------------------------
(* Deferred linking *)

\* The tree without what process_conn writes.
Unlinked(ms) ==
  [mi \in 1..Len(ms) |->
     [ms[mi] EXCEPT
        !.connections = <<>>,
        !.chains = [ci \in 1..Len(ms[mi].chains) |->
                      [ms[mi].chains[ci] EXCEPT
                         !.residues =
                            [ri \in 1..Len(ms[mi].chains[ci].residues) |->
                               [ms[mi].chains[ci].residues[ri] EXCEPT
                                  !.conn = <<>>, !.is_cis = FALSE]]]]]]

\* The SSBOND and CISPEP lines of a file that are long enough to be kept,
\* in file order.
LongConnLines(f) ==
  SelectSeq(f, LAMBDA r : \/ r.type = "SSBOND" /\ r.len > 34
                          \/ r.type = "CISPEP" /\ r.len > 21)

\* C21: SSBOND and CISPEP records are only buffered during the read pass
\* (the step that reads one changes nothing but the buffer, and no link
\* exists while lines are read); they are resolved once, when the loop has
\* ended, against the finalized tree and in file order.
C21_DeferredLinking ==
  [][ /\ (ReadsRecord /\ Last(file').type \in {"SSBOND", "CISPEP"}) =>
            /\ UNCHANGED <<pc, models, entities, chain_to_ent_, has_ter,
                           model, chain, resi>>
            /\ conn_records' = LongConnLines(file')
      /\ pc' = "read" => models' = Unlinked(models')
      /\ (pc = "read" /\ pc' = "done") =>
            models' = process_conn(finalize(models, entities, chain_to_ent_).models,
                                   LongConnLines(file')) ]_vars

\* An SSBOND and a CISPEP line came first, the ATOM lines of the residues
\* they name after them, and the finished tree holds the bond and the flag.
C21_Witness ==
  /\ pc = "done"
  /\ Len(file) = 4
  /\ file[1].type = "SSBOND" /\ file[2].type = "CISPEP"
  /\ file[3].type = "ATOM" /\ file[4].type = "ATOM"
  /\ Len(models[1].connections) = 1
  /\ Len(models[1].chains) = 1
  /\ Len(models[1].chains[1].residues) = 2
  /\ models[1].chains[1].residues[1].is_cis
  /\ models[1].chains[1].residues[2].conn = <<"2 disulf1">>


----------------------------------------------------------------------------
(* find_nearest_image and the mode *)

\* The call is made and has returned.
Returned == ret # <<>> /\ "sym_image" \in DOMAIN arg

\* The identity image at zero offset.
SameImage(image) == image.box = <<0, 0, 0>> /\ image.sym_id = 0

\* The cell of a structure that is not a crystal: a = 1 A.
NonCrystal(cell) == cell.edge[1] = 10

\* The squared distance of the two points as they are given.
Direct ==
  [inf |-> FALSE,
   val |-> (arg.ref[1] - arg.pos[1]) * (arg.ref[1] - arg.pos[1])
             + (arg.ref[2] - arg.pos[2]) * (arg.ref[2] - arg.pos[2])
             + (arg.ref[3] - arg.pos[3]) * (arg.ref[3] - arg.pos[3])]

\* C22 as stated: in mode Different a result that is the identity image at
\* zero offset has an infinite dist_sq; in mode Same, or with a cell that is
\* not a crystal, box and sym_id are zero and dist_sq is the direct one, or
\* infinite when the points coincide.
C22_DirectUnlessCoincide ==
  Returned =>
    /\ (arg.sym_image = "Different" /\ SameImage(ret)) => ret.dist_sq.inf
    /\ (arg.sym_image = "Same" \/ NonCrystal(arg.cell)) =>
          /\ SameImage(ret)
          /\ ret.dist_sq = IF arg.ref = arg.pos THEN INFINITY ELSE Direct

\* C22: in mode Different a result that is the identity image at zero offset
\* has an infinite dist_sq; in mode Same, or with a cell that is not a
\* crystal, box and sym_id are zero and dist_sq is infinite when the points
\* coincide or the mode is Different, and the direct one otherwise.
C22_DifferentMode ==
  Returned =>
    /\ (arg.sym_image = "Different" /\ SameImage(ret)) => ret.dist_sq.inf
    /\ (arg.sym_image = "Same" \/ NonCrystal(arg.cell)) =>
          /\ SameImage(ret)
          /\ ret.dist_sq = IF arg.ref = arg.pos \/ arg.sym_image = "Different"
                           THEN INFINITY ELSE Direct

\* Mode Different in a crystal without images, the nearest copy of pos
\* being pos itself: the result is the identity image with no distance.
C22_Witness ==
  /\ Returned
  /\ arg.sym_image = "Different"
  /\ ~NonCrystal(arg.cell) /\ arg.cell.images = <<>>
  /\ arg.pos = Vec3(50, 50, 50)
  /\ SameImage(ret) /\ ret.dist_sq.inf


----------------------------------------------------------------------------
(* The line buffer: char line[88] = {0}, filled by copy_line_from_stream at
   every iteration and read by the handlers at fixed offsets *)

LineSize == 88

\* The buffer after fgets stored the bytes l and their terminating NUL over
\* what the buffer held.
Overlay(buf, l) ==
  [i \in 1..LineSize |-> IF i <= Len(l) THEN l[i]
                         ELSE IF i = Len(l) + 1 THEN NUL
                         ELSE buf[i]]

\* char line[88] = {0}
ZeroBuffer == [i \in 1..LineSize |-> NUL]

\* The buffer after the first k lines of a file.
RECURSIVE LineBuffer(_, _)
LineBuffer(f, k) ==
  IF k = 0 THEN ZeroBuffer ELSE Overlay(LineBuffer(f, k - 1), f[k].raw)

\* std::string from bytes
RECURSIVE Str(_)
Str(bytes) == IF bytes = <<>> THEN "" ELSE Chr(Head(bytes)) \o Str(Tail(bytes))

\* The record the dispatcher and the handler of its branch read from the
\* buffer, for a line of len bytes: the columns the handler reads, at the
\* offsets it reads them.
RecordAt(buf, len) ==
  LET head  == Bytes(buf, 0, 4)
      t     == record_type(head)
      r     == [BlankRecord EXCEPT !.head = head, !.len = len,
                                   !.raw = SubSeq(buf, 1, len)]
      Name(from, n) == Str(read_string(Bytes(buf, from, n), n))
  IN  CASE t \in {"ATOM", "HETATM"} ->
             [r EXCEPT !.type = IF is_record_type(head, "ATOM") THEN "ATOM"
                                ELSE "HETATM",
                       !.chain_name = Name(20, 2),
                       !.res_name = Name(17, 3),
                       !.snic = Bytes(buf, 22, 5),
                       !.c78 = IF len > 78 THEN At(buf, 78) ELSE Ord[" "],
                       !.c79 = IF len > 78 THEN At(buf, 79) ELSE Ord[" "]]
        [] t = "ANISOU" -> [r EXCEPT !.type = t, !.u11 = Bytes(buf, 28, 8)]
        [] t = "SEQRES" ->
             [r EXCEPT !.type = t, !.chain_name = Name(10, 2),
                       !.mons = [k \in 1..13 |-> Name(19 + 4 * (k - 1), 3)]]
        [] t = "MODEL"  -> [r EXCEPT !.type = t, !.serial = Bytes(buf, 10, 5)]
        [] OTHER        -> [r EXCEPT !.type = t]

\* One iteration of the loop on the bytes l of a line, for the lines of the
\* ATOM/HETATM, ANISOU, SEQRES, MODEL, REMARK and CONECT branches.
ReadBuffered(l) ==
  \E r \in {RecordAt(Overlay(LineBuffer(file, Len(file)), l), Len(l))} :
      CASE r.type \in {"ATOM", "HETATM"} -> ReadAtom(r)
        [] r.type = "ANISOU" -> ReadAnisou(r)
        [] r.type = "SEQRES" -> ReadSeqres(r)
        [] r.type = "MODEL"  -> ReadModel(r)
        [] r.type \in {"REMARK", "CONECT", ""} -> ReadIgnored(r)
        [] OTHER -> FALSE

MaxBufferLines == 4

\* The bytes of the characters of w.
W(w) == [i \in 1..Len(w) |-> Ord[w[i]]]

\* The bytes, spaces up to column n, and the line feed.
Padded(bytes, n) == bytes \o Spaces(n - Len(bytes)) \o <<LF>>

\* Full lines of 80 columns and lines cut short after the record name or
\* in the middle of their columns.
BufferInputs ==
  LET seqres(c) == W(<<"S", "E", "Q", "R", "E", "S">>) \o Spaces(5)
                     \o W(<<c>>) \o Spaces(7)
      atom      == W(<<"A", "T", "O", "M">>) \o Spaces(6) \o W(<<"7">>)
                     \o Spaces(6) \o W(<<"A", "L", "A">>) \o Spaces(1)
                     \o W(<<"A">>) \o Spaces(3) \o W(<<"1">>) \o Spaces(2)
                     \o W(<<"1", "2", "3">>)
      anisou    == W(<<"A", "N", "I", "S", "O", "U">>)
      modelw    == W(<<"M", "O", "D", "E", "L">>)
  IN  { Padded(seqres("A") \o W(<<"A", "L", "A">>) \o Spaces(1)
                 \o W(<<"G", "L", "Y">>), 80),
        seqres("B") \o W(<<"S", "E", "R">>) \o <<LF>>,
        Padded(atom, 80),
        Padded(anisou \o Spaces(28) \o W(<<"5">>), 80),
        anisou \o <<LF>>,
        Padded(modelw \o Spaces(8) \o W(<<"2">>), 14),
        modelw \o <<LF>>,
        Padded(W(<<"R", "E", "M", "A", "R", "K">>), 80) }

NextBuffer ==
  \/ More(MaxBufferLines) /\ \E l \in BufferInputs : ReadBuffered(l)
  \/ ReadEof

SpecBuffer == Init /\ [][NextBuffer]_vars

\* What the handler of the record's branch makes of its columns: the names,
\* the residue number, the model number, the U value, the monomers.
Decoded(r) ==
  [type |-> r.type, len |-> r.len, chain_name |-> r.chain_name,
   res_name |-> r.res_name, snic |-> read_snic(r.snic),
   charge |-> <<r.c78, r.c79>>,
   u11 |-> read_int(r.u11, 7), serial |-> read_int(r.serial, 4),
   mons |-> SelectSeq(r.mons, LAMBDA res_name : res_name # "")]

\* The record as read from a buffer that held nothing before the line.
Alone(r) == RecordAt(Overlay(ZeroBuffer, r.raw), Len(r.raw))

\* C23: what a record does depends only on the bytes of its line up to the
\* terminator and on the parser state: the values its handler reads are
\* those it would read from the line in a buffer that held nothing before.
C23_RecordIndependence ==
  [][ ReadsRecord => Decoded(Last(file')) = Decoded(Alone(Last(file'))) ]_vars

----------------------------------------------------------------------------
(* The pointers of the dispatcher *)

\* Between records: a chain that is set lies in the model that is set, and
\* the residue lies in that chain.
PointersValid ==
  pc = "read" =>
    (chain # 0 =>
       /\ model # 0 /\ model <= Len(models)
       /\ chain <= Len(models[model].chains)
       /\ resi # 0
       /\ resi <= Len(models[model].chains[chain].residues))

\* The step read a record of type t and the reader goes on.
Accepts(t) == ReadsRecord /\ Last(file').type = t /\ pc' = "read"

PointerSteps ==
  /\ Accepts("ENDMDL") => model' = 0 /\ chain' = 0
  /\ (Accepts("MODEL") \/ Accepts("TER")) => chain' = 0
  /\ (Accepts("TER") /\ chain # 0) => model # 0
  /\ Accepts("ANISOU") =>
       /\ model # 0 /\ chain # 0 /\ resi # 0
       /\ resi <= Len(models[model].chains[chain].residues)
       /\ UNCHANGED <<model, chain, resi>>
  /\ (Accepts("ATOM") \/ Accepts("HETATM")) =>
       /\ model' = model /\ chain' # 0 /\ resi' # 0
       /\ resi' <= Len(models'[model'].chains[chain'].residues)
       /\ Len(models'[model'].chains[chain'].residues[resi'].atoms) > 0

\* C24: between records a chain that is set lies in the model that is set
\* and the residue lies in that chain; ENDMDL clears model and chain, MODEL
\* and TER clear the chain, and ATOM and ANISOU use the residue only while
\* the chain is set and the residue is one of its residues.
C24_PointerInvariant == []PointersValid /\ [][PointerSteps]_vars

\* An ATOM set the pointers, an ANISOU used them, a TER recorded the chain
\* and cleared it, and an ATOM of another chain set them again.
C24_Witness ==
  /\ pc = "read"
  /\ Len(file) = 4
  /\ file[1].type = "ATOM" /\ file[2].type = "ANISOU"
  /\ file[3].type = "TER" /\ file[4].type = "ATOM"
  /\ Len(has_ter) = 1
  /\ model = 1 /\ chain = 2 /\ resi = 1

----------------------------------------------------------------------------
(* TER and the entity type *)

\* The has_ter key of the chain at position p.
KeyOf(p) == ter_key(models[p[1]].name, ChainAt(p).name)

\* The chains whose key a TER record stored.
Terminated == {p \in AllChains : in_vector(KeyOf(p), has_ter)}

\* A TER record processed while a chain is current stores that chain's key.
TerRecords ==
  (Accepts("TER") /\ chain # 0) =>
     in_vector(ter_key(models[model].name, models[model].chains[chain].name),
               has_ter')

(* C25: TER implies polymer.  A TER record processed while a chain is
   current records that chain's "model/name" in has_ter, and after a
   successful read every chain whose "model/name" is in has_ter has an
   entity, owned by the Structure, of type Polymer, whether or not a SEQRES
   record named the chain. *)
C25_TerImpliesPolymer ==
  /\ [](pc = "done" =>
          \A p \in Terminated :
             /\ ChainAt(p).entity \in Owned
             /\ Deref(entities, ChainAt(p).entity).type = "Polymer")
  /\ [][TerRecords]_vars

\* A finished read with a TER'ed chain no SEQRES named beside a TER'ed chain
\* a SEQRES named.
C25_Witness ==
  /\ pc = "done"
  /\ Len(has_ter) = 2
  /\ \E p \in Terminated : ~Registered(file, ChainAt(p).name)
  /\ \E p \in Terminated : Registered(file, ChainAt(p).name)

----------------------------------------------------------------------------
(* The unit cell: set, calculate_properties and set_matrices_from_fract *)

MaxCalls == 3

Lengths == {[num |-> n, exp |-> 0] : n \in {1, 2}}

Angles == {Zero, Ninety}

\* Scale matrices: the first diagonal element 0, 0.5, 1 or 2.
FractInputs ==
  {Diag(d, e, One) :
     d \in {Zero, [num |-> 5, exp |-> 1], One, [num |-> 2, exp |-> 0]},
     e \in {One, [num |-> 5, exp |-> 1]}}

\* arg is the UnitCell, ret the last call: its number, its name, its
\* arguments and whether it threw.
CellInit ==
  /\ ReaderInit
  /\ arg = DefaultCell
  /\ ret = [n |-> 0, op |-> "UnitCell", in |-> <<>>, threw |-> FALSE]

CellCall(cell, op, in, threw) ==
  /\ ret.n < MaxCalls
  /\ arg' = cell
  /\ ret' = [n |-> ret.n + 1, op |-> op, in |-> in, threw |-> threw]
  /\ UNCHANGED <<file, line_num, pc, err, models, entities, chain_to_ent_,
                 has_ter, model, chain, resi, blocks, conn_records, matrix, st>>

CallSet ==
  \E a_ \in Lengths, b_ \in Lengths, c_ \in Lengths,
     alpha_ \in Angles, beta_ \in Angles, gamma_ \in Angles :
     \E r \in {set(arg, a_, b_, c_, alpha_, beta_, gamma_)} :
        CellCall(r.cell, "set", <<a_, b_, c_, alpha_, beta_, gamma_>>, r.threw)

CallCalculateProperties ==
  \E r \in {calculate_properties(arg)} :
     CellCall(r.cell, "calculate_properties", <<>>, r.threw)

CallSetMatricesFromFract ==
  \E f \in FractInputs :
     CellCall(set_matrices_from_fract(arg, f), "set_matrices_from_fract",
              f, FALSE)

NextCell == CallSet \/ CallCalculateProperties \/ CallSetMatricesFromFract

SpecCell == CellInit /\ [][NextCell]_vars

\* The step is a call of op.
Called(op) == ret'.n = ret.n + 1 /\ ret'.op = op

\* The six parameters after the step are the arguments of set.
ParametersSet ==
  <<arg'.a, arg'.b, arg'.c, arg'.alpha, arg'.beta, arg'.gamma>> = ret'.in

ParametersKept ==
  <<arg'.a, arg'.b, arg'.c, arg'.alpha, arg'.beta, arg'.gamma>>
    = <<arg.a, arg.b, arg.c, arg.alpha, arg.beta, arg.gamma>>

\* The cell after the step has right angles.
RightAngled == arg'.alpha = Ninety /\ arg'.beta = Ninety /\ arg'.gamma = Ninety

\* The call returned, and volume and the reciprocal parameters are those of
\* the parameters after the step: abc, 1/a, 1/b, 1/c and cosines 0 when the
\* angles are right.
PropertiesUpdated ==
  /\ ~ret'.threw
  /\ RightAngled =>
       /\ arg'.volume = Times(Times(arg'.a, arg'.b), arg'.c)
       /\ arg'.ar = Over(One, arg'.a)
       /\ arg'.br = Over(One, arg'.b)
       /\ arg'.cr = Over(One, arg'.c)
       /\ arg'.cos_alphar = Zero /\ arg'.cos_betar = Zero
       /\ arg'.cos_gammar = Zero

PropertiesKept ==
  <<arg'.volume, arg'.ar, arg'.br, arg'.cr, arg'.cos_alphar, arg'.cos_betar,
    arg'.cos_gammar>>
    = <<arg.volume, arg.ar, arg.br, arg.cr, arg.cos_alphar, arg.cos_betar,
        arg.cos_gammar>>

MatricesKept == arg'.orth = arg.orth /\ arg'.frac = arg.frac

\* The call returned, and orth and frac are those of the parameters after
\* the step: diag(a, b, c) and diag(1/a, 1/b, 1/c) when the angles are right.
MatricesRecomputed ==
  /\ ~ret'.threw
  /\ RightAngled =>
       /\ arg'.orth = Diag(arg'.a, arg'.b, arg'.c)
       /\ arg'.frac = Diag(Over(One, arg'.a), Over(One, arg'.b),
                           Over(One, arg'.c))

\* explicit_matrices, once true, stays true.
StaysExplicit == arg.explicit_matrices => arg'.explicit_matrices

(* C26 as stated: explicit matrices are sticky.  Once set_matrices_from_fract
   has adopted a transform, every later set() with gamma /= 0 and every later
   calculate_properties updates the parameters, volume and reciprocal
   parameters and leaves orth and frac unchanged; while explicit_matrices is
   false every set() with gamma /= 0 recomputes orth and frac from the
   parameters; set() with gamma = 0 changes nothing at all. *)
C26_EverySetUpdates ==
  [][/\ StaysExplicit
     /\ Called("set") =>
          IF ret'.in[6] = Zero THEN arg' = arg
          ELSE /\ ParametersSet
               /\ PropertiesUpdated
               /\ IF arg.explicit_matrices THEN MatricesKept
                  ELSE MatricesRecomputed
     /\ (Called("calculate_properties") /\ arg.explicit_matrices) =>
          ParametersKept /\ PropertiesUpdated /\ MatricesKept]_vars

\* The angles alpha_, beta_ of a cell whose gamma is not 0 make
\* calculate_properties fail: one of the sines is 0.
Impossible(alpha_, beta_) == alpha_ = Zero \/ beta_ = Zero

\* The call threw after the parameters were stored: nothing else changed.
ThrewImpossible ==
  /\ ret'.threw
  /\ PropertiesKept /\ MatricesKept
  /\ arg'.explicit_matrices = arg.explicit_matrices

(* C26, amended: explicit matrices are sticky.  set() with gamma = 0 changes
   nothing at all.  A set() with gamma /= 0 stores the six parameters; if
   alpha or beta is 0 it then throws "Impossible angle" and leaves volume,
   the reciprocal parameters, orth and frac as they were; otherwise it
   updates volume and the reciprocal parameters, and leaves orth and frac
   unchanged once set_matrices_from_fract has adopted a transform
   (explicit_matrices = true), and recomputes them from the parameters while
   explicit_matrices is false.  calculate_properties does the same on the
   stored parameters.  Neither call clears explicit_matrices. *)
C26_ExplicitSticky ==
  [][/\ StaysExplicit
     /\ Called("set") =>
          IF ret'.in[6] = Zero THEN arg' = arg /\ ~ret'.threw
          ELSE /\ ParametersSet
               /\ IF Impossible(ret'.in[4], ret'.in[5]) THEN ThrewImpossible
                  ELSE /\ PropertiesUpdated
                       /\ arg'.explicit_matrices = arg.explicit_matrices
                       /\ IF arg.explicit_matrices THEN MatricesKept
                          ELSE MatricesRecomputed
     /\ Called("calculate_properties") =>
          /\ ParametersKept
          /\ IF Impossible(arg.alpha, arg.beta) THEN ThrewImpossible
             ELSE /\ PropertiesUpdated
                  /\ IF arg.explicit_matrices THEN MatricesKept
                     ELSE MatricesRecomputed]_vars

\* A set() after the adoption of the scale (0.5, 1, 1): the cell is 2 x 2 x 2
\* with volume 8, and frac is still the adopted transform.
C26_Witness ==
  /\ ret.n = 2 /\ ret.op = "set" /\ ~ret.threw
  /\ arg.explicit_matrices
  /\ arg.a = [num |-> 2, exp |-> 0] /\ arg.b = arg.a /\ arg.c = arg.a
  /\ arg.volume = [num |-> 8, exp |-> 0]
  /\ arg.br = [num |-> 5, exp |-> 1]
  /\ arg.frac = Diag([num |-> 5, exp |-> 1], One, One)
  /\ arg.orth = [inverse_of |-> arg.frac]


====
